---------------------------- MODULE Spec2Model ----------------------------
(***************************************************************************)
(* A model of nuqql-slixmppd: the line-protocol server and command         *)
(* dispatcher of based.py, and the per-account XMPP session workers of     *)
(* slixmppd.py / server.py / client.py.                                    *)
(*                                                                         *)
(* The repository holds several snapshots of the backend.  Every function  *)
(* is modelled from the newest snapshot that contains it:                  *)
(*  based.py                    server, dispatcher, registry, callbacks    *)
(*  nuqql_slixmppd/slixmppd.py  NuqqlClient (queue, buffers, roster),      *)
(*                              run_client, _reconnect, main, and the      *)
(*                              callbacks server.py no longer has          *)
(*  nuqql_slixmppd/server.py    add_account, del_account, stop_thread,     *)
(*                              enqueue, send_message, chat_send           *)
(*  nuqql_slixmppd/client.py    BackendClient._disconnected, the           *)
(*                              disconnect handler that connects again     *)
(***************************************************************************)
EXTENDS Integers, Sequences, FiniteSets, TLC

(***************************************************************************)
(* Bounds of the model.                                                    *)
(***************************************************************************)
\* accounts the registry holds at most (guard of "account add")
MaxAccounts == 3
\* byte groups a client sends on one connection at most
MaxStream == 6
\* byte groups one recv() returns at most
MaxRead == 3
\* commands the server thread enqueues for a session at most
MaxCommands == 3
\* messages a session receives at most
MaxMessages == 3
\* seconds the clock runs at most
MaxTime == 12
\* clients that connect to the server at most
MaxClients == 3
\* tags of the backend that are unregistered at a time at most
MaxUnregistered == 2
\* events of all kinds a session takes at most
MaxEvents == 2

VARIABLES
    \* ---- based.py: the registry, the callback table, the persisted file
    ACCOUNTS,       \* based.ACCOUNTS: the accounts, in dict insertion order
    CALLBACKS,      \* based.CALLBACKS: event tag -> name of the handler
    accounts_file,  \* accounts.ini: the records store_accounts() wrote last
    \* ---- slixmppd.py / server.py: the session tables
    CONNECTIONS,    \* account id -> client of the session
    THREADS,        \* account id -> the running Event of the worker thread
    \* ---- the dispatcher's last call
    line,           \* parts of the line handle_msg() was called with
    result,         \* what handle_msg() returned: cmd, reply, escaped exception
    fired,          \* callback() calls made by that call, in order
    enqueued,       \* enqueue_command() calls made by that call, in order
    \* ---- based.py: NuqqlBaseHandler, the handler of the client connection
    conn,           \* "open", "closed" (handle() returned), "exited" (sys.exit)
    buffer,         \* self.buffer: the bytes received and not yet consumed
    received,       \* every byte recv() has returned on this connection
    dispatched,     \* the messages handed to handle_msg(), in order, split
    sent,           \* the payloads of request.sendall(), in order
    loop_cmd,       \* cmd of handle(): what handle_messages() returned last
    server,         \* serve_forever(): the clients connected and not accepted
                    \* yet, and the client of the handler
    \* ---- slixmppd.py: the sessions, one worker thread for each
    lock,           \* account id -> who holds the Lock of the client
    worker,         \* account id -> run_client(): position and locals
    control,        \* the server thread inside a method of a client
    link,           \* account id -> the connection slixmpp holds
    client_roster,  \* account id -> the roster slixmpp holds
    now,            \* time.time(), in seconds
    trace           \* account id -> what the session was asked and has done

dispVars == <<ACCOUNTS, CALLBACKS, accounts_file, CONNECTIONS, THREADS,
              line, result, fired, enqueued>>

connVars == <<conn, buffer, received, dispatched, sent, loop_cmd, server>>

sessVars == <<lock, worker, control, link, client_roster, now, trace>>

vars == <<dispVars, connVars, sessVars>>

(***************************************************************************)
(* Helpers for Python values.                                              *)
(***************************************************************************)
\* seq[n:] of Python, n counted from 0
Slice(seq, n) == SubSeq(seq, n + 1, Len(seq))

\* sep.join(seq) of Python, on strings
RECURSIVE Join(_, _)
Join(seq, sep) ==
    IF seq = <<>> THEN ""
    ELSE IF Len(seq) = 1 THEN seq[1]
    ELSE seq[1] \o sep \o Join(Tail(seq), sep)

\* sorted(S) of Python for a finite set of integers
RECURSIVE Sorted(_)
Sorted(S) ==
    IF S = {} THEN <<>>
    ELSE LET m == CHOOSE x \in S : \A y \in S : x <= y
         IN <<m>> \o Sorted(S \ {m})

\* int(tok) of Python on the tokens of the model: the decimal numerals
\* convert, everything else raises ValueError
Numerals == <<"0", "1", "2", "3", "4", "5">>
IsInt(tok) == \/ \E i \in 1..Len(Numerals) : Numerals[i] = tok
              \/ \E i \in 2..Len(Numerals) : "-" \o Numerals[i] = tok
ParseInt(tok) ==
    IF \E i \in 1..Len(Numerals) : Numerals[i] = tok
    THEN (CHOOSE i \in 1..Len(Numerals) : Numerals[i] = tok) - 1
    ELSE 0 - ((CHOOSE i \in 2..Len(Numerals) : "-" \o Numerals[i] = tok) - 1)

(***************************************************************************)
(* Format: the reply formats.  A reply is a sequence of frames; a frame    *)
(* is its prefix ("info", "error", ...) and the text behind "<prefix>: ".  *)
(* Format.X.format(...) ends with EOM, so it is one frame; "" is <<>> and  *)
(* "".join(replies) is the concatenation of the frames.                    *)
(***************************************************************************)
Format_INFO(text) == <<[prefix |-> "info", text |-> text]>>
Format_ERROR(text) == <<[prefix |-> "error", text |-> text]>>
Format_ACCOUNT(aid, name, type, user, status) ==
    <<[prefix |-> "account",
       text |-> ToString(aid) \o " (" \o name \o ") " \o type \o " " \o user
                \o " [" \o status \o "]"]>>
Format_BUDDY(aid, status, name, alias) ==
    <<[prefix |-> "buddy",
       text |-> ToString(aid) \o " status: " \o status \o " name: " \o name
                \o " alias: " \o alias]>>
Format_STATUS(aid, status) ==
    <<[prefix |-> "status",
       text |-> "account " \o ToString(aid) \o " status: " \o status]>>
Format_HELP_MSG == <<[prefix |-> "info",
                      text |-> "List of commands and their description:"]>>
\* the reply of "bye" and "quit": a plain string without prefix and EOM
Goodbye == <<[prefix |-> "", text |-> "Goodbye."]>>

(***************************************************************************)
(* Account and Buddy.                                                      *)
(***************************************************************************)
Buddy(name, alias, status) == [name |-> name, alias |-> alias, status |-> status]

Account(aid, atype, user, password) ==
    [aid |-> aid, name |-> "", type |-> atype, user |-> user,
     password |-> password, status |-> "online", buddies |-> <<>>]

\* ACCOUNTS.keys()
AccountIds(accounts) == {accounts[i].aid : i \in 1..Len(accounts)}

\* index of the account with id aid
AccountIndex(accounts, aid) == CHOOSE i \in 1..Len(accounts) : accounts[i].aid = aid

\* del ACCOUNTS[acc_id]
DelAccount(accounts, aid) ==
    LET Other(acc) == acc.aid # aid IN SelectSeq(accounts, Other)


(***************************************************************************)
(* The dispatcher works on the program state st: a record of the registry, *)
(* the callback table, the accounts file and the session tables, plus the  *)
(* logs of the call in progress.  Every operation returns                  *)
(*   [ret: its return value, exc: the exception that escaped it or "",     *)
(*    st: the state it leaves].                                            *)
(***************************************************************************)
Return(st, ret) == [ret |-> ret, exc |-> "", st |-> st]
Raise(st, exc) == [ret |-> <<>>, exc |-> exc, st |-> st]

\* the record store_accounts() writes for an account
AccountRecord(acc) ==
    [id |-> acc.aid, type |-> acc.type, user |-> acc.user,
     password |-> acc.password]

\* config[section][option] = value: the ConfigParser of store_accounts()
\* interpolates, and refuses, with ValueError, a value with a "%" that is
\* followed neither by "%" nor by "(".  The statement is outside the try of
\* store_accounts().
Interpolating == {"50%"}
StoreRaises(accounts) ==
    \E i \in 1..Len(accounts) :
        {accounts[i].type, accounts[i].user, accounts[i].password}
            \cap Interpolating # {}

\* store_accounts() that leaves the passwords out of the file
store_accounts_open(st, io) ==
    [st EXCEPT !.accounts_file =
        {[AccountRecord(st.ACCOUNTS[i]) EXCEPT !.password = ""] :
            i \in 1..Len(st.ACCOUNTS)}]

\* store_accounts() from "try:": rewrite the accounts file from ACCOUNTS.
\* An OSError is logged and swallowed: raised by open() it leaves the file as it was
\* ("unchanged"), raised after open(..., "w") it leaves the file truncated
store_accounts(st, io) ==
    [st EXCEPT !.accounts_file =
        CASE io = "written" ->
                {AccountRecord(st.ACCOUNTS[i]) : i \in 1..Len(st.ACCOUNTS)}
          [] io = "unchanged" -> @
          [] io = "truncated" -> {}]

\* _get_account_id(): the next free account id
RECURSIVE ScanAccountIds(_, _)
ScanAccountIds(ids, last_acc_id) ==
    IF ids = <<>> THEN last_acc_id + 1
    ELSE IF Head(ids) - last_acc_id >= 2 THEN last_acc_id + 1
    ELSE IF Head(ids) - last_acc_id = 1
         THEN ScanAccountIds(Tail(ids), Head(ids))
         ELSE ScanAccountIds(Tail(ids), last_acc_id)

\* a registry that never reuses a freed id: one past the highest id
get_account_id_append(accounts) ==
    IF accounts = <<>> THEN 0
    ELSE Sorted(AccountIds(accounts))[Len(accounts)] + 1

get_account_id(accounts) ==
    IF accounts = <<>> THEN 0
    ELSE ScanAccountIds(Sorted(AccountIds(accounts)), -1)

(***************************************************************************)
(* The backend's callbacks.                                                *)
(***************************************************************************)
\* BackendClient.__init__ / NuqqlClient.__init__: the client of a session
NewClient ==
    [_status |-> "", buddies |-> <<>>, queue |-> <<>>, history |-> <<>>,
     messages |-> <<>>, muc_invites |-> <<>>, muc_cache |-> {},
     joined |-> {}]

\* xmpp.account.<field> = value: the client holds the Account object, which
\* may have left ACCOUNTS already
SetAccount(st, aid, field, value) ==
    IF aid \in AccountIds(st.ACCOUNTS)
    THEN [st EXCEPT !.ACCOUNTS[AccountIndex(st.ACCOUNTS, aid)][field] = value]
    ELSE st

\* enqueue(): the command goes to the queue of the account's client
enqueue(st, aid, cmd, params) ==
    IF aid \notin DOMAIN st.CONNECTIONS
    THEN Return(st, <<>>)               \* KeyError caught: no active connection
    ELSE Return([st EXCEPT !.enqueued =
                    Append(@, [aid |-> aid, cmd |-> cmd, params |-> params])],
                <<>>)

\* html.unescape(msg) and the <br/> to newline rewrite of send_message():
\* the tokens of the model hold no character reference and no <br/>
html_unescape(msg) == msg

\* send_message()
send_message(st, aid, cmd, params) ==
    enqueue(st, aid, cmd,
            <<params[1], html_unescape(params[2]),
              "<body xmlns=\"http://www.w3.org/1999/xhtml\">" \o params[2]
                \o "</body>",
              IF Len(params) > 2 THEN params[3] ELSE "chat">>)

\* chat_send()
chat_send(st, aid, cmd, params) ==
    send_message(st, aid, "SEND_MESSAGE", <<params[1], params[2], "groupchat">>)

\* an add_account() that starts a session whatever the type of the account is
add_account_any(st, aid, cmd, params) ==
    Return(SetAccount([st EXCEPT !.THREADS = (aid :> TRUE) @@ @,
                                 !.CONNECTIONS = (aid :> NewClient) @@ @],
                      aid, "status", "offline"),
           <<>>)

\* add_account(): start a session for an xmpp account and wait until its
\* worker has registered the client
add_account(st, aid, cmd, params) ==
    IF st.ACCOUNTS[AccountIndex(st.ACCOUNTS, aid)].type # "xmpp"
    THEN Return(st, <<>>)
    ELSE Return(SetAccount([st EXCEPT !.THREADS = (aid :> TRUE) @@ @,
                                      !.CONNECTIONS = (aid :> NewClient) @@ @],
                           aid, "status", "offline"),
                <<>>)

\* del_account(): stop and join the worker, then drop the table entries
del_account(st, aid, cmd, params) ==
    IF aid \notin DOMAIN st.THREADS
    THEN Raise(st, "KeyError")
    ELSE Return([st EXCEPT
                    !.CONNECTIONS = [a \in DOMAIN @ \ {aid} |-> @[a]],
                    !.THREADS = [a \in DOMAIN @ \ {aid} |-> @[a]]],
                <<>>)

\* stop_thread(): clear the running Event of the account's worker
stop_thread(st, aid, cmd, params) ==
    IF aid \notin DOMAIN st.THREADS
    THEN Raise(st, "KeyError")
    ELSE Return([st EXCEPT !.THREADS[aid] = FALSE], <<>>)

\* an update_buddies() callback that merges: the buddies of the account the
\* snapshot does not name stay, the snapshot follows
update_buddies_merged(st, aid, cmd, params) ==
    IF aid \notin DOMAIN st.CONNECTIONS
    THEN Return(st, <<>>)
    ELSE LET snapshot == st.CONNECTIONS[aid].buddies
             Stale(buddy) ==
                \A i \in 1..Len(snapshot) : snapshot[i].name # buddy.name
         IN  Return(SetAccount(st, aid, "buddies",
                        SelectSeq(st.ACCOUNTS[AccountIndex(st.ACCOUNTS, aid)].buddies,
                                  Stale) \o snapshot),
                    <<>>)

\* update_buddies() callback: copy the client's roster snapshot
update_buddies(st, aid, cmd, params) ==
    IF aid \notin DOMAIN st.CONNECTIONS
    THEN Return(st, <<>>)
    ELSE Return(SetAccount(st, aid, "buddies", st.CONNECTIONS[aid].buddies),
                <<>>)

\* get_messages() callback: drain the client's new messages
get_messages(st, aid, cmd, params) ==
    IF aid \notin DOMAIN st.CONNECTIONS
    THEN Return(st, <<>>)
    ELSE Return([st EXCEPT !.CONNECTIONS[aid].messages = <<>>],
                st.CONNECTIONS[aid].messages)

\* collect_messages() callback: the client's whole history
collect_messages(st, aid, cmd, params) ==
    IF aid \notin DOMAIN st.CONNECTIONS
    THEN Return(st, <<>>)
    ELSE Return(st, st.CONNECTIONS[aid].history)

\* a backend that registers stop_thread for DISCONNECT as well
BackendCallbacks_disconnect ==
    [QUIT |-> "stop_thread", DISCONNECT |-> "stop_thread",
     ADD_ACCOUNT |-> "add_account",
     DEL_ACCOUNT |-> "del_account", UPDATE_BUDDIES |-> "update_buddies",
     GET_MESSAGES |-> "get_messages", SEND_MESSAGE |-> "send_message",
     COLLECT_MESSAGES |-> "collect_messages", SET_STATUS |-> "enqueue",
     GET_STATUS |-> "enqueue", CHAT_LIST |-> "enqueue",
     CHAT_JOIN |-> "enqueue", CHAT_PART |-> "enqueue",
     CHAT_SEND |-> "chat_send", CHAT_USERS |-> "enqueue",
     CHAT_INVITE |-> "enqueue"]

\* the callbacks main() / BackendServer.start() register
BackendCallbacks ==
    [QUIT |-> "stop_thread", ADD_ACCOUNT |-> "add_account",
     DEL_ACCOUNT |-> "del_account", UPDATE_BUDDIES |-> "update_buddies",
     GET_MESSAGES |-> "get_messages", SEND_MESSAGE |-> "send_message",
     COLLECT_MESSAGES |-> "collect_messages", SET_STATUS |-> "enqueue",
     GET_STATUS |-> "enqueue", CHAT_LIST |-> "enqueue",
     CHAT_JOIN |-> "enqueue", CHAT_PART |-> "enqueue",
     CHAT_SEND |-> "chat_send", CHAT_USERS |-> "enqueue",
     CHAT_INVITE |-> "enqueue"]

\* class Callback: the event tags
Callback ==
    {"QUIT", "DISCONNECT", "SEND_MESSAGE", "GET_MESSAGES", "COLLECT_MESSAGES",
     "ADD_ACCOUNT", "DEL_ACCOUNT", "UPDATE_BUDDIES", "GET_STATUS",
     "SET_STATUS", "CHAT_LIST", "CHAT_JOIN", "CHAT_PART", "CHAT_USERS",
     "CHAT_SEND", "CHAT_INVITE"}

\* register_callback(cb_name, cb_func)
register_callback(st, cb_name, cb_func) ==
    [st EXCEPT !.CALLBACKS =
        [c \in DOMAIN @ \cup {cb_name} |-> IF c = cb_name THEN cb_func ELSE @[c]]]

\* an unregister_callback() that leaves the handler in the table
unregister_callback_kept(st, cb_name) == st

\* unregister_callback(cb_name)
unregister_callback(st, cb_name) ==
    IF cb_name \in DOMAIN st.CALLBACKS
    THEN [st EXCEPT !.CALLBACKS = [c \in DOMAIN @ \ {cb_name} |-> @[c]]]
    ELSE st

\* CALLBACKS[cb_name](account_id, cb_name, params)
CallHandler(st, handler, aid, cmd, params) ==
    CASE handler = "stop_thread" -> stop_thread(st, aid, cmd, params)
      [] handler = "add_account" -> add_account(st, aid, cmd, params)
      [] handler = "del_account" -> del_account(st, aid, cmd, params)
      [] handler = "update_buddies" -> update_buddies(st, aid, cmd, params)
      [] handler = "get_messages" -> get_messages(st, aid, cmd, params)
      [] handler = "collect_messages" -> collect_messages(st, aid, cmd, params)
      [] handler = "send_message" -> send_message(st, aid, cmd, params)
      [] handler = "chat_send" -> chat_send(st, aid, cmd, params)
      [] handler = "enqueue" -> enqueue(st, aid, cmd, params)

\* callback(): call the handler of cb_name if one is registered
Call(st, aid, cb_name, params) ==
    IF cb_name \in DOMAIN st.CALLBACKS
    THEN CallHandler(st, st.CALLBACKS[cb_name], aid, cb_name, params)
    ELSE Return(st, <<>>)

callback(st, aid, cb_name, params) ==
    Call([st EXCEPT !.fired =
            Append(@, [cb |-> cb_name, aid |-> aid, params |-> params])],
         aid, cb_name, params)


(***************************************************************************)
(* based.py: the command handlers.  A handler that goes on after a         *)
(* callback is written as the handler up to the callback and an operator   *)
(* for the rest, which takes the callback's outcome r.                     *)
(***************************************************************************)
\* the rest of a handler that returns reply after its last callback
Then(r, reply) == IF r.exc # "" THEN r ELSE Return(r.st, reply)

\* handle_account_list()
RECURSIVE AccountLines(_)
AccountLines(accounts) ==
    IF accounts = <<>> THEN <<>>
    ELSE Format_ACCOUNT(Head(accounts).aid, Head(accounts).name,
                        Head(accounts).type, Head(accounts).user,
                        Head(accounts).status)
         \o AccountLines(Tail(accounts))

handle_account_list(st) == Return(st, AccountLines(st.ACCOUNTS))

\* a handle_account_add() without the loop that looks for the account
AddAccount_unchecked(st, new_acc, io) ==
    Then(callback(store_accounts(
                        [st EXCEPT !.ACCOUNTS = Append(@, new_acc)], io),
                  new_acc.aid, "ADD_ACCOUNT", <<>>),
         Format_INFO("new account added."))

\* handle_account_add(params), from "make sure the account does not exist"
AddAccount(st, new_acc, io) ==
    IF \E i \in 1..Len(st.ACCOUNTS) :
            /\ st.ACCOUNTS[i].type = new_acc.type
            /\ st.ACCOUNTS[i].user = new_acc.user
    THEN Return(st, Format_INFO("account already exists."))
    ELSE IF StoreRaises(Append(st.ACCOUNTS, new_acc))
    THEN Raise([st EXCEPT !.ACCOUNTS = Append(@, new_acc)], "ValueError")
    ELSE Then(callback(store_accounts(
                            [st EXCEPT !.ACCOUNTS = Append(@, new_acc)], io),
                       new_acc.aid, "ADD_ACCOUNT", <<>>),
              Format_INFO("new account added."))

\* a handle_account_add() that takes three parameters and no more
handle_account_add_exactly(st, params, io) ==
    IF Len(params) # 3 THEN Return(st, <<>>)
    ELSE AddAccount(st, Account(get_account_id(st.ACCOUNTS), params[1],
                                params[2], params[3]), io)

\* handle_account_add(params)
handle_account_add(st, params, io) ==
    IF Len(params) < 3 THEN Return(st, <<>>)
    ELSE AddAccount(st, Account(get_account_id(st.ACCOUNTS), params[1],
                                params[2], params[3]), io)

\* handle_account_delete(acc_id)
handle_account_delete(st, acc_id, io) ==
    IF StoreRaises(DelAccount(st.ACCOUNTS, acc_id))
    THEN Raise([st EXCEPT !.ACCOUNTS = DelAccount(@, acc_id)], "ValueError")
    ELSE
    Then(callback(store_accounts(
                        [st EXCEPT !.ACCOUNTS = DelAccount(@, acc_id)], io),
                  acc_id, "DEL_ACCOUNT", <<>>),
         Format_INFO("account " \o ToString(acc_id) \o " deleted."))

\* str.lower() on the tokens of the model
Lower(tok) == IF tok \in {"ONLINE", "Online"} THEN "online" ELSE tok

\* handle_account_buddies(acc_id, params), from "get buddies for account"
RECURSIVE BuddyLines(_, _, _)
BuddyLines(acc_id, buddies, online) ==
    IF buddies = <<>> THEN <<>>
    ELSE (IF online /\ Head(buddies).status # "Available" THEN <<>>
          ELSE Format_BUDDY(acc_id, Head(buddies).status, Head(buddies).name,
                            Head(buddies).alias))
         \o BuddyLines(acc_id, Tail(buddies), online)

ListBuddies(r, acc_id, online) ==
    IF r.exc # "" THEN r
    ELSE Return(r.st,
            BuddyLines(acc_id,
                r.st.ACCOUNTS[AccountIndex(r.st.ACCOUNTS, acc_id)].buddies,
                online))

\* handle_account_buddies(acc_id, params)
handle_account_buddies(st, acc_id, params) ==
    ListBuddies(callback(st, acc_id, "UPDATE_BUDDIES", <<>>), acc_id,
                Len(params) >= 1 /\ Lower(params[1]) = "online")

\* handle_account_collect(acc_id, params): the time parameter is only logged
handle_account_collect(st, acc_id, params) ==
    callback(st, acc_id, "COLLECT_MESSAGES", <<>>)

\* a handle_account_send() that adds a buddy without looking for the name
AddBuddy_unchecked(r, acc_id, user, io) ==
    IF r.exc # "" THEN r
    ELSE Return(store_accounts(
                    [r.st EXCEPT
                        !.ACCOUNTS[AccountIndex(r.st.ACCOUNTS, acc_id)].buddies =
                            Append(@, Buddy(user, "", "Available"))], io),
                <<>>)

\* handle_account_send(acc_id, params), from "check if it is an existing
\* buddy"
AddBuddy(r, acc_id, user, io) ==
    IF r.exc # "" THEN r
    ELSE IF \E i \in 1..Len(r.st.ACCOUNTS) :
                /\ r.st.ACCOUNTS[i].aid = acc_id
                /\ \E j \in 1..Len(r.st.ACCOUNTS[i].buddies) :
                        r.st.ACCOUNTS[i].buddies[j].name = user
    THEN Return(r.st, <<>>)
    ELSE IF StoreRaises(r.st.ACCOUNTS)
    THEN Raise([r.st EXCEPT
                    !.ACCOUNTS[AccountIndex(r.st.ACCOUNTS, acc_id)].buddies =
                        Append(@, Buddy(user, "", "Available"))],
               "ValueError")
    ELSE Return(store_accounts(
                    [r.st EXCEPT
                        !.ACCOUNTS[AccountIndex(r.st.ACCOUNTS, acc_id)].buddies =
                            Append(@, Buddy(user, "", "Available"))], io),
                <<>>)

\* handle_account_send(acc_id, params), Account.send_msg() included
handle_account_send(st, acc_id, params, io) ==
    IF params = <<>> THEN Raise(st, "IndexError")       \* params[0]
    ELSE AddBuddy(callback(st, acc_id, "SEND_MESSAGE",
                           <<params[1], Join(Slice(params, 1), " ")>>),
                  acc_id, params[1], io)

\* handle_account_status(acc_id, params), "get": from "if status:"
StatusReply(r, acc_id) ==
    IF r.exc # "" THEN r
    ELSE IF r.ret # <<>> THEN Return(r.st, Format_STATUS(acc_id, r.ret))
    ELSE Return(r.st, <<>>)

\* handle_account_status(acc_id, params)
handle_account_status(st, acc_id, params) ==
    IF params = <<>> THEN Return(st, <<>>)
    ELSE IF params[1] = "get"
    THEN StatusReply(callback(st, acc_id, "GET_STATUS", <<>>), acc_id)
    ELSE IF params[1] = "set"
    THEN IF Len(params) < 2 THEN Return(st, <<>>)
         ELSE callback(st, acc_id, "SET_STATUS", <<params[2]>>)
    ELSE Return(st, <<>>)

\* a handle_account_chat() that answers a missing token with an error
handle_account_chat_strict(st, acc_id, params) ==
    IF params = <<>> THEN Return(st, <<>>)
    ELSE IF params[1] = "list" THEN callback(st, acc_id, "CHAT_LIST", <<>>)
    ELSE IF Len(params) < 2 THEN Return(st, Format_ERROR("invalid command"))
    ELSE IF params[1] = "join"
    THEN callback(st, acc_id, "CHAT_JOIN", <<params[2]>>)
    ELSE IF params[1] = "part"
    THEN callback(st, acc_id, "CHAT_PART", <<params[2]>>)
    ELSE IF params[1] = "users"
    THEN callback(st, acc_id, "CHAT_USERS", <<params[2]>>)
    ELSE IF Len(params) < 3 THEN Return(st, Format_ERROR("invalid command"))
    ELSE IF params[1] = "invite"
    THEN callback(st, acc_id, "CHAT_INVITE", <<params[2], params[3]>>)
    ELSE IF params[1] = "send"
    THEN callback(st, acc_id, "CHAT_SEND",
                  <<params[2], Join(Slice(params, 2), " ")>>)
    ELSE Return(st, <<>>)

\* handle_account_chat(acc_id, params)
handle_account_chat(st, acc_id, params) ==
    IF params = <<>> THEN Return(st, <<>>)
    ELSE IF params[1] = "list" THEN callback(st, acc_id, "CHAT_LIST", <<>>)
    ELSE IF Len(params) < 2 THEN Return(st, <<>>)
    ELSE IF params[1] = "join"
    THEN callback(st, acc_id, "CHAT_JOIN", <<params[2]>>)
    ELSE IF params[1] = "part"
    THEN callback(st, acc_id, "CHAT_PART", <<params[2]>>)
    ELSE IF params[1] = "users"
    THEN callback(st, acc_id, "CHAT_USERS", <<params[2]>>)
    ELSE IF Len(params) < 3 THEN Return(st, <<>>)
    ELSE IF params[1] = "invite"
    THEN callback(st, acc_id, "CHAT_INVITE", <<params[2], params[3]>>)
    ELSE IF params[1] = "send"
    THEN callback(st, acc_id, "CHAT_SEND",
                  <<params[2], Join(Slice(params, 2), " ")>>)
    ELSE Return(st, <<>>)

\* a dispatcher that ignores an unknown sub-command as handle_msg() ignores an
\* unknown verb
AccountCommand_silent(st, command, acc_id, params, io) ==
    CASE command = "list" -> handle_account_list(st)
      [] command = "add" -> handle_account_add(st, params, io)
      [] command = "delete" -> handle_account_delete(st, acc_id, io)
      [] command = "buddies" -> handle_account_buddies(st, acc_id, params)
      [] command = "collect" -> handle_account_collect(st, acc_id, params)
      [] command = "send" -> handle_account_send(st, acc_id, params, io)
      [] command = "status" -> handle_account_status(st, acc_id, params)
      [] command = "chat" -> handle_account_chat(st, acc_id, params)
      [] OTHER -> Return(st, <<>>)

\* the command handlers of handle_account(), by command
AccountCommand(st, command, acc_id, params, io) ==
    CASE command = "list" -> handle_account_list(st)
      [] command = "add" -> handle_account_add(st, params, io)
      [] command = "delete" -> handle_account_delete(st, acc_id, io)
      [] command = "buddies" -> handle_account_buddies(st, acc_id, params)
      [] command = "collect" -> handle_account_collect(st, acc_id, params)
      [] command = "send" -> handle_account_send(st, acc_id, params, io)
      [] command = "status" -> handle_account_status(st, acc_id, params)
      [] command = "chat" -> handle_account_chat(st, acc_id, params)
      [] OTHER -> Return(st, Format_ERROR("unknown command"))

\* a handle_account() that leaves the "valid account?" check of a delete to
\* handle_account_delete()
ParseAccount_unchecked(st, parts) ==
    IF parts[2] = "list"
    THEN [error |-> <<>>, command |-> "list", acc_id |-> -1, params |-> <<>>]
    ELSE IF parts[2] = "add"
    THEN [error |-> <<>>, command |-> "add", acc_id |-> -1,
          params |-> Slice(parts, 2)]
    ELSE IF Len(parts) >= 3
    THEN IF ~IsInt(parts[2])
         THEN [error |-> Format_ERROR("invalid account ID")]
         ELSE IF /\ ParseInt(parts[2]) \notin AccountIds(st.ACCOUNTS)
                 /\ parts[3] # "delete"
         THEN [error |-> Format_ERROR("invalid account")]
         ELSE [error |-> <<>>, command |-> parts[3],
               acc_id |-> ParseInt(parts[2]), params |-> Slice(parts, 3)]
    ELSE [error |-> Format_ERROR("invalid command")]

\* handle_account(parts): the command, the account id and the parameters;
\* error is the error reply of a line that names none
ParseAccount(st, parts) ==
    IF parts[2] = "list"
    THEN [error |-> <<>>, command |-> "list", acc_id |-> -1, params |-> <<>>]
    ELSE IF parts[2] = "add"
    THEN [error |-> <<>>, command |-> "add", acc_id |-> -1,
          params |-> Slice(parts, 2)]
    ELSE IF Len(parts) >= 3
    THEN IF ~IsInt(parts[2])
         THEN [error |-> Format_ERROR("invalid account ID")]
         ELSE IF ParseInt(parts[2]) \notin AccountIds(st.ACCOUNTS)
         THEN [error |-> Format_ERROR("invalid account")]
         ELSE [error |-> <<>>, command |-> parts[3],
               acc_id |-> ParseInt(parts[2]), params |-> Slice(parts, 3)]
    ELSE [error |-> Format_ERROR("invalid command")]

RunAccount(st, p, io) ==
    IF p.error # <<>> THEN Return(st, p.error)
    ELSE AccountCommand(st, p.command, p.acc_id, p.params, io)

handle_account(st, parts, io) == RunAccount(st, ParseAccount(st, parts), io)

\* the loop of handle_msg() over the accounts for "bye" and "quit"
RECURSIVE NotifyAccounts(_, _, _), NotifyRest(_, _, _)
NotifyAccounts(st, accounts, cb_name) ==
    IF accounts = <<>> THEN Return(st, <<>>)
    ELSE NotifyRest(callback(st, Head(accounts).aid, cb_name, <<>>),
                    Tail(accounts), cb_name)
NotifyRest(r, accounts, cb_name) ==
    IF r.exc # "" THEN r ELSE NotifyAccounts(r.st, accounts, cb_name)

\* what handle_msg() hands back: (cmd, reply), or the exception that
\* escapes it
Returned(r, cmd, reply) ==
    IF r.exc # ""
    THEN [cmd |-> "", reply |-> <<>>, exc |-> r.exc, st |-> r.st]
    ELSE [cmd |-> cmd, reply |-> reply, exc |-> "", st |-> r.st]
ReturnedMsg(r) == Returned(r, "msg", r.ret)

\* handle_msg(msg), msg.split(" ") done
handle_msg(st, parts, io) ==
    IF Len(parts) >= 2 /\ parts[1] = "account"
    THEN ReturnedMsg(handle_account(st, parts, io))
    ELSE IF parts[1] \in {"bye", "quit"}
    THEN Returned(NotifyAccounts(st, st.ACCOUNTS,
                        IF parts[1] = "bye" THEN "DISCONNECT" ELSE "QUIT"),
                  parts[1], Goodbye)
    ELSE IF parts[1] = "help"
    THEN Returned(Return(st, <<>>), "msg", Format_HELP_MSG)
    ELSE Returned(Return(st, <<>>), "msg", <<>>)

(***************************************************************************)
(* The dispatcher as an action: the client sends one line and              *)
(* handle_msg() handles it.                                                *)
(***************************************************************************)
\* the program state the dispatcher works on, the logs empty
State ==
    [ACCOUNTS |-> ACCOUNTS, CALLBACKS |-> CALLBACKS,
     accounts_file |-> accounts_file, CONNECTIONS |-> CONNECTIONS,
     THREADS |-> THREADS, fired |-> <<>>, enqueued |-> <<>>]

\* sys.exit() of handle() after "quit": the server handles nothing more
ServerExited == result.cmd = "quit"

\* the state handle_msg() leaves and what it returned
Handled(r, parts) ==
    /\ Len(r.st.ACCOUNTS) <= MaxAccounts
    /\ ACCOUNTS' = r.st.ACCOUNTS
    /\ CALLBACKS' = r.st.CALLBACKS
    /\ accounts_file' = r.st.accounts_file
    /\ CONNECTIONS' = r.st.CONNECTIONS
    /\ THREADS' = r.st.THREADS
    /\ line' = parts
    /\ result' = [cmd |-> r.cmd, reply |-> r.reply, exc |-> r.exc]
    /\ fired' = r.st.fired
    /\ enqueued' = r.st.enqueued

Dispatch(parts, io) ==
    /\ ~ServerExited
    /\ Handled(handle_msg(State, parts, io), parts)

\* the state after main(): no accounts file yet, the callbacks registered
InitDispatch ==
    /\ ACCOUNTS = <<>>
    /\ CALLBACKS = BackendCallbacks
    /\ accounts_file = {}
    /\ CONNECTIONS = <<>>
    /\ THREADS = <<>>
    /\ line = <<>>
    /\ result = [cmd |-> "", reply |-> <<>>, exc |-> ""]
    /\ fired = <<>>
    /\ enqueued = <<>>

\* NuqqlBaseHandler at the start of handle(): the connection accepted,
\* nothing received
InitConnection ==
    /\ conn = "open"
    /\ buffer = <<>>
    /\ received = <<>>
    /\ dispatched = <<>>
    /\ sent = <<>>
    /\ loop_cmd = <<>>
    /\ server = [backlog |-> <<>>, client |-> 1, closed |-> {}]

\* the server thread is in no method of a client
Idle == [pc |-> "idle"]

\* no worker thread is looked at: the specifications of the dispatcher and of
\* the handler take the sessions as the callbacks leave them
NoWorkers ==
    /\ lock = <<>>
    /\ worker = <<>>
    /\ control = Idle
    /\ link = <<>>
    /\ client_roster = <<>>
    /\ now = 0
    /\ trace = <<>>

(***************************************************************************)
(* The lines of the model.                                                 *)
(***************************************************************************)
Types == {"xmpp", "icq"}
Users == {"alice", "bob"}
Passwords == {"secret"}
IdTokens == {"0", "1", "2", "3", "x"}

\* "account add" with too few, with exactly three and with more parameters
AddLines ==
    {<<"account", "add">>}
    \cup {<<"account", "add", t>> : t \in Types}
    \cup {<<"account", "add", t, u>> : t \in Types, u \in Users}
    \cup {<<"account", "add", t, u, p>> :
                t \in Types, u \in Users, p \in Passwords}
    \cup {<<"account", "add", t, u, p, "more">> :
                t \in Types, u \in Users, p \in Passwords}

RegistryLines ==
    AddLines
    \cup {<<"account", "list">>}
    \cup {<<"account", i, "delete">> : i \in IdTokens}

(***************************************************************************)
(* SpecRegistry: the registry under "account add", "account <id> delete"   *)
(* and "account list".                                                     *)
(***************************************************************************)
RegistryCommand ==
    /\ \E parts \in RegistryLines : Dispatch(parts, "written")
    /\ UNCHANGED <<connVars, sessVars>>

InitRegistry == InitDispatch /\ InitConnection /\ NoWorkers
NextRegistry == RegistryCommand
SpecRegistry == InitRegistry /\ [][NextRegistry]_vars


(***************************************************************************)
(* SpecDispatch: the dispatcher under every kind of line: the commands of  *)
(* an account with and without parameters, unknown verbs, bad ids, "bye"   *)
(* and "quit".  An exception that escapes handle_msg() ends the handler of *)
(* the connection; the server accepts the next client in the state the     *)
(* exception left.                                                         *)
(***************************************************************************)
\* what follows "account <id>" on a line
AccountTails ==
    {<<>>, <<"delete">>, <<"buddies">>, <<"buddies", "online">>,
     <<"collect">>, <<"send">>, <<"send", "bob">>, <<"send", "bob", "hi">>,
     <<"status">>, <<"status", "get">>, <<"status", "set", "away">>,
     <<"chat", "list">>, <<"chat", "join", "room">>,
     <<"chat", "send", "room", "hi">>, <<"frobnicate">>,
     <<"frobnicate", "now">>}

\* top-level verbs handle_msg() knows nothing of, the empty line included
UnknownVerbs == {"ver", "who", "frobnicate", ""}

DispatchLines ==
    {<<"account", "add", t, "alice", p>> : t \in Types, p \in Passwords}
    \cup {<<"account", "add">>, <<"account", "list">>, <<"account">>}
    \cup {<<"account", i>> \o tail : i \in IdTokens, tail \in AccountTails}
    \cup {<<v>> : v \in UnknownVerbs}
    \cup {<<v, "now">> : v \in UnknownVerbs}
    \cup {<<"help">>, <<"bye">>, <<"quit">>}

DispatchCommand ==
    /\ \E parts \in DispatchLines : Dispatch(parts, "written")
    /\ UNCHANGED <<connVars, sessVars>>

InitDispatcher == InitDispatch /\ InitConnection /\ NoWorkers
NextDispatch == DispatchCommand
SpecDispatch == InitDispatcher /\ [][NextDispatch]_vars

(***************************************************************************)
(* based.py: NuqqlBaseHandler, the handler of one client connection.       *)
(*                                                                         *)
(* The bytes of the connection are modelled in groups: a group is a run of *)
(* bytes that one recv() returns whole, written as the tokens that single  *)
(* spaces separate in it.  CR and LF are groups of their own, so that a    *)
(* read ends between them; BadByte is a byte that is not valid UTF-8.      *)
(***************************************************************************)
CR == <<"\r">>
LF == <<"\n">>
BadByte == <<"\\xff">>
ByteGroups == {<<"account", "li">>, <<"st">>, <<"bye">>, CR, LF, BadByte}

\* what recv(1024) returns: n groups; no group when select() timed out with
\* nothing to read
RECURSIVE Reads(_)
Reads(n) ==
    IF n = 0 THEN {<<>>}
    ELSE {Append(d, g) : d \in Reads(n - 1), g \in ByteGroups}

\* self.buffer.find(Format.EOM.encode()): the index of the first CR LF,
\* counted from 0, or -1
Find(buf) ==
    IF \E i \in 1..(Len(buf) - 1) : buf[i] = CR /\ buf[i + 1] = LF
    THEN (CHOOSE i \in 1..(Len(buf) - 1) :
            /\ buf[i] = CR /\ buf[i + 1] = LF
            /\ \A j \in 1..(i - 1) : ~(buf[j] = CR /\ buf[j + 1] = LF)) - 1
    ELSE -1

\* msg.decode(): UnicodeDecodeError for a message that holds a bad byte
Decodable(msg) == \A i \in 1..Len(msg) : msg[i] # BadByte

\* msg.decode().split(" "): the tokens of the text the groups spell; the last
\* token of a group runs on into the first token of the next group
Glue(group, parts) ==
    SubSeq(group, 1, Len(group) - 1)
        \o <<group[Len(group)] \o Head(parts)>> \o Tail(parts)
RECURSIVE Split(_)
Split(msg) ==
    IF msg = <<>> THEN <<"">> ELSE Glue(Head(msg), Split(Tail(msg)))

\* the state of handle() while it runs: the program state st, the buffer,
\* the record of what was dispatched and sent, the value handle_messages()
\* returns (<<>> is None, <<"bye">> the string, <<"bye", error>> the tuple)
\* and the exception that escaped
Handler(st) ==
    [st |-> st, buffer |-> buffer, received |-> received,
     dispatched |-> dispatched, sent |-> sent, line |-> line,
     result |-> result, loop_cmd |-> <<>>, exc |-> ""]

\* handle_incoming(): the new messages of every account go to the client
RECURSIVE handle_incoming(_, _), SendIncoming(_, _, _)
handle_incoming(h, accounts) ==
    IF accounts = <<>> THEN h
    ELSE SendIncoming(h, callback(h.st, Head(accounts).aid, "GET_MESSAGES",
                                  <<>>),
                      Tail(accounts))
SendIncoming(h, r, accounts) ==
    IF r.exc # "" THEN [h EXCEPT !.st = r.st, !.exc = r.exc]
    ELSE handle_incoming(
            [h EXCEPT !.st = r.st,
                      !.sent = IF r.ret # <<>>
                               THEN Append(@, [messages |-> r.ret])
                               ELSE @],
            accounts)

\* self.buffer[eom + 2:], the buffer behind the message and its delimiter,
\* and a cut that leaves the LF of the delimiter in the buffer
Consumed_keep_lf(buf, eom) == Slice(buf, eom + 1)

Consumed(buf, eom) == Slice(buf, eom + 2)

\* handle_messages(): handle every complete message of the buffer
RECURSIVE handle_messages(_), HandleMessage(_, _), Replied(_, _, _)
handle_messages(h) ==
    IF Find(h.buffer) = -1 THEN [h EXCEPT !.loop_cmd = <<>>]
    ELSE HandleMessage([h EXCEPT !.buffer = Consumed(@, Find(@))],
                       SubSeq(h.buffer, 1, Find(h.buffer)))
HandleMessage(h, msg) ==
    IF ~Decodable(msg)
    THEN [h EXCEPT !.loop_cmd = <<"bye", "UnicodeDecodeError">>]
    ELSE Replied([h EXCEPT !.dispatched = Append(@, Split(msg)),
                           !.line = Split(msg)],
                 handle_msg([h.st EXCEPT !.fired = <<>>, !.enqueued = <<>>],
                            Split(msg), "written"),
                 msg)
Replied(h, r, msg) ==
    IF r.exc # ""
    THEN [h EXCEPT !.st = r.st, !.exc = r.exc,
                   !.result = [cmd |-> r.cmd, reply |-> r.reply,
                               exc |-> r.exc]]
    ELSE IF r.cmd \in {"bye", "quit"}
    THEN [h EXCEPT !.st = r.st, !.loop_cmd = <<r.cmd>>,
                   !.result = [cmd |-> r.cmd, reply |-> r.reply,
                               exc |-> r.exc]]
    ELSE handle_messages(
            [h EXCEPT !.st = r.st,
                      !.result = [cmd |-> r.cmd, reply |-> r.reply,
                                  exc |-> r.exc],
                      !.sent = IF r.cmd = "msg" /\ r.reply # <<>>
                               THEN Append(@, [reply |-> r.reply])
                               ELSE @])

\* one round of the loop of handle(), up to the select()
Received(h, data) ==
    IF h.exc # "" THEN h
    ELSE handle_messages([h EXCEPT !.buffer = @ \o data,
                                   !.received = @ \o data])

\* the state one round of the loop leaves
Looped(h) ==
    /\ Len(h.st.ACCOUNTS) <= MaxAccounts
    /\ ACCOUNTS' = h.st.ACCOUNTS
    /\ CALLBACKS' = h.st.CALLBACKS
    /\ accounts_file' = h.st.accounts_file
    /\ CONNECTIONS' = h.st.CONNECTIONS
    /\ THREADS' = h.st.THREADS
    /\ line' = h.line
    /\ result' = h.result
    /\ fired' = h.st.fired
    /\ enqueued' = h.st.enqueued
    /\ buffer' = h.buffer
    /\ received' = h.received
    /\ dispatched' = h.dispatched
    /\ sent' = h.sent
    /\ loop_cmd' = h.loop_cmd
    /\ server' = server
    /\ conn' = IF h.exc # "" \/ h.loop_cmd = <<"bye">> THEN "closed"
               ELSE IF h.loop_cmd = <<"quit">> THEN "exited"
               ELSE "open"

\* handle(): one round of the loop with the bytes recv() returned, or with
\* none after the select() timeout
HandleLoop(data) ==
    /\ conn = "open"
    /\ Len(received) + Len(data) <= MaxStream
    /\ Looped(Received(handle_incoming(Handler(State), ACCOUNTS), data))
    /\ UNCHANGED sessVars

\* handle(): select() reports an error on the socket, the handler returns
SocketError ==
    /\ conn = "open"
    /\ conn' = "closed"
    /\ UNCHANGED <<dispVars, buffer, received, dispatched, sent, loop_cmd,
                   server>>
    /\ UNCHANGED sessVars

(***************************************************************************)
(* SpecFraming: one client connection, the bytes of the client cut into    *)
(* reads in every way.  The connection is accepted with the registry       *)
(* empty or with the accounts that earlier "account add" lines left.       *)
(***************************************************************************)
\* the program state after handle_msg() has handled the lines in order
RECURSIVE RunLines(_, _)
RunLines(st, lines) ==
    IF lines = <<>> THEN st
    ELSE RunLines(handle_msg(st, Head(lines), "written").st, Tail(lines))

\* the program state after main()
Boot ==
    [ACCOUNTS |-> <<>>, CALLBACKS |-> BackendCallbacks, accounts_file |-> {},
     CONNECTIONS |-> <<>>, THREADS |-> <<>>, fired |-> <<>>,
     enqueued |-> <<>>]

EarlierLines ==
    <<<<"account", "add", "xmpp", "alice", "secret">>,
      <<"account", "add", "icq", "bob", "secret">>>>

StartedWith(st) ==
    /\ ACCOUNTS = st.ACCOUNTS
    /\ CALLBACKS = st.CALLBACKS
    /\ accounts_file = st.accounts_file
    /\ CONNECTIONS = st.CONNECTIONS
    /\ THREADS = st.THREADS
    /\ line = <<>>
    /\ result = [cmd |-> "", reply |-> <<>>, exc |-> ""]
    /\ fired = <<>>
    /\ enqueued = <<>>

InitFraming ==
    /\ \E n \in {0, Len(EarlierLines)} :
            StartedWith(RunLines(Boot, SubSeq(EarlierLines, 1, n)))
    /\ InitConnection
    /\ NoWorkers

\* the sizes of the next read: MaxRead groups at most, and the client sends
\* MaxStream groups at most
ReadSizes ==
    0..(IF MaxStream - Len(received) < MaxRead
        THEN MaxStream - Len(received) ELSE MaxRead)

Recv == \E n \in ReadSizes : \E data \in Reads(n) : HandleLoop(data)

NextFraming == Recv \/ SocketError
SpecFraming == InitFraming /\ [][NextFraming]_vars

(***************************************************************************)
(* slixmppd.py: the session of an account.  run_client() is the worker     *)
(* thread; the event handlers of NuqqlClient run inside its                *)
(* xmpp.process(); the server thread calls enqueue_command(),              *)
(* get_messages() and the update_buddies() callback.  Every acquire and    *)
(* release of the client's Lock and every assignment in between is a step. *)
(***************************************************************************)
\* seconds _reconnect() waits after the last connect
ReconnectInterval == 10

\* the variables no step of a session changes
sessionFrame ==
    <<CALLBACKS, accounts_file, THREADS, line, result, fired, enqueued,
      connVars>>

\* lock.acquire() succeeds when nobody holds the Lock, and a Lock that
\* excludes nobody
CanAcquire_anyway(holder) == TRUE

CanAcquire(holder) == holder = "free"

\* self.buddies while update_buddies() builds the new list: the new list is a
\* local, self.buddies keeps the previous list up to the assignment; and a
\* build in self.buddies itself with the Lock not held
Building_in_place(published, local) == local

Building(published, local) == published

\* html.escape(msg) on the bodies of the model
html_escape(msg) == IF msg = "a<b" THEN "a&lt;b" ELSE msg

\* format_message()
format_message(aid, tstamp, sender, destination, msg) ==
    [prefix |-> "message",
     text |-> Join(<<ToString(aid), destination, ToString(tstamp), sender,
                     html_escape(msg)>>, " ")]

\* format_chat_msg()
format_chat_msg(aid, tstamp, sender, destination, msg) ==
    [prefix |-> "chat",
     text |-> Join(<<"msg:", ToString(aid), destination, ToString(tstamp),
                     sender, html_escape(msg)>>, " ")]

\* Format.CHAT_USER
Format_CHAT_USER(aid, chat, user, alias, status) ==
    [prefix |-> "chat",
     text |-> Join(<<"user:", ToString(aid), chat, user, alias, status>>, " ")]

\* run_client() up to ready.set(): the client made, connect() called at t
RunClient(t) ==
    [pc |-> "loop", queue |-> <<>>, buddies |-> <<>>, todo |-> <<>>,
     msg |-> [prefix |-> "", text |-> ""], last_connect |-> t]

\* what the session was asked and has done since the worker started;
\* presence holds the show values of the presences sent over the connection
\* that is up
NewTrace(t) ==
    [submitted |-> <<>>, executed |-> <<>>, events |-> <<>>,
     arrived |-> <<>>, delivered |-> <<>>, complete |-> <<>>,
     snap_old |-> <<>>, attempts |-> <<t>>, presence |-> <<>>]

\* the last two connect() calls of a session
Attempted(attempts, t) ==
    IF Len(attempts) < 2 THEN Append(attempts, t)
    ELSE <<attempts[2], t>>

At(a, pc) == a \in DOMAIN worker /\ worker[a].pc = pc
Goto(a, pc) == worker' = [worker EXCEPT ![a].pc = pc]
ControlAt(a, pc) == control.pc = pc /\ control.aid = a

\* xmpp.account.status: the client holds the Account object.  Once the
\* account has left the registry the object is seen by the client only; its
\* status is the one the handlers of the client gave it last.
AccountStatus(a) ==
    IF a \in AccountIds(ACCOUNTS)
    THEN ACCOUNTS[AccountIndex(ACCOUNTS, a)].status
    ELSE IF link[a] = "up" THEN "online" ELSE "offline"

\* self.account.status = status
WithStatus(accounts, a, status) ==
    IF a \in AccountIds(accounts)
    THEN [accounts EXCEPT ![AccountIndex(accounts, a)].status = status]
    ELSE accounts

\* a loop that goes on whatever the running Event says
WhileRunning_forever(a) ==
    /\ At(a, "loop")
    /\ Goto(a, "process")
    /\ UNCHANGED <<ACCOUNTS, CONNECTIONS, lock, control, link, client_roster,
                   now, trace, sessionFrame>>

\* ---- run_client(): the worker's loop
\* while running.is_set()
WhileRunning(a) ==
    /\ At(a, "loop")
    /\ Goto(a, IF THREADS[a] THEN "process" ELSE "exited")
    /\ UNCHANGED <<ACCOUNTS, CONNECTIONS, lock, control, link, client_roster,
                   now, trace, sessionFrame>>

\* xmpp.process(timeout=0.1) returns
Processed(a) ==
    /\ At(a, "process")
    /\ Goto(a, "status")
    /\ UNCHANGED <<ACCOUNTS, CONNECTIONS, lock, control, link, client_roster,
                   now, trace, sessionFrame>>

\* _reconnect(xmpp, last_connect): connect() if the last connect is
\* ReconnectInterval seconds old
Reconnect(a) ==
    IF now - worker[a].last_connect < ReconnectInterval
    THEN /\ Goto(a, "loop")
         /\ UNCHANGED <<link, trace>>
    ELSE /\ worker' = [worker EXCEPT ![a].pc = "loop",
                                     ![a].last_connect = now]
         /\ link' = [link EXCEPT ![a] = "connecting"]
         /\ trace' = [trace EXCEPT ![a].attempts = Attempted(@, now)]

\* a run_client() that goes on to the queue whatever the status is
CheckStatus_always(a) ==
    /\ At(a, "status")
    /\ Goto(a, "hq_acquire")
    /\ UNCHANGED <<ACCOUNTS, CONNECTIONS, lock, control, link, client_roster,
                   now, trace, sessionFrame>>

\* if xmpp.account.status == "offline": _reconnect() and continue
CheckStatus(a) ==
    /\ At(a, "status")
    /\ IF AccountStatus(a) = "offline"
       THEN Reconnect(a)
       ELSE Goto(a, "hq_acquire") /\ UNCHANGED <<link, trace>>
    /\ UNCHANGED <<ACCOUNTS, CONNECTIONS, lock, control, client_roster, now,
                   sessionFrame>>

\* ---- NuqqlClient.handle_queue()
HqAcquire(a) ==
    /\ At(a, "hq_acquire")
    /\ CanAcquire(lock[a])
    /\ lock' = [lock EXCEPT ![a] = "worker"]
    /\ Goto(a, "hq_copy")
    /\ UNCHANGED <<ACCOUNTS, CONNECTIONS, control, link, client_roster, now,
                   trace, sessionFrame>>

\* queue = self.queue[:]
HqCopy(a) ==
    /\ At(a, "hq_copy")
    /\ worker' = [worker EXCEPT ![a].pc = "hq_flush",
                                ![a].queue = CONNECTIONS[a].queue]
    /\ UNCHANGED <<ACCOUNTS, CONNECTIONS, lock, control, link, client_roster,
                   now, trace, sessionFrame>>

\* self.queue = []
HqFlush(a) ==
    /\ At(a, "hq_flush")
    /\ CONNECTIONS' = [CONNECTIONS EXCEPT ![a].queue = <<>>]
    /\ Goto(a, "hq_release")
    /\ UNCHANGED <<ACCOUNTS, lock, control, link, client_roster, now, trace,
                   sessionFrame>>

HqRelease(a) ==
    /\ At(a, "hq_release")
    /\ lock' = [lock EXCEPT ![a] = "free"]
    /\ Goto(a, "hq_run")
    /\ UNCHANGED <<ACCOUNTS, CONNECTIONS, control, link, client_roster, now,
                   trace, sessionFrame>>

\* a cleanup that deletes nothing
WithoutInvite_kept(muc_invites, jid) == muc_invites

\* del self.muc_invites[jid]
WithoutInvite(muc_invites, jid) ==
    LET Other(chat) == chat # jid IN SelectSeq(muc_invites, Other)

\* _chat_join(chat): join_muc() makes the chat a joined room of the plugin,
\* and the chat goes to self.muc_cache, a list of which only "in" is asked
NuqqlClient_chat_join(client, chat) ==
    [client EXCEPT !.joined = @ \cup {chat}, !.muc_cache = @ \cup {chat}]

\* _chat_part(chat): leave_muc() for a joined room, which stays in
\* self.muc_cache; a pending invite of the chat is removed
NuqqlClient_chat_part(client, chat) ==
    [client EXCEPT !.joined = @ \ {chat},
                   !.muc_invites = WithoutInvite(@, chat)]

\* handle_queue(): what a command of the queue does to the client
HandleCommand(client, command) ==
    CASE command.cmd = "SET_STATUS" ->
            [client EXCEPT !._status = command.params[1]]
      [] command.cmd = "CHAT_JOIN" ->
            NuqqlClient_chat_join(client, command.params[1])
      [] command.cmd = "CHAT_PART" ->
            NuqqlClient_chat_part(client, command.params[1])
      [] OTHER -> client

\* _set_status(status): self.send_presence(pshow=status)
Presence(command) ==
    IF command.cmd = "SET_STATUS" THEN <<command.params[1]>> ELSE <<>>

\* a handle_queue() whose SET_STATUS sets the status of the account
HqRun_account_status(a) ==
    /\ At(a, "hq_run")
    /\ IF worker[a].queue = <<>>
       THEN /\ worker' = [worker EXCEPT ![a].pc = "ub_build",
                                        ![a].buddies = <<>>,
                                        ![a].todo = client_roster[a]]
            /\ UNCHANGED <<ACCOUNTS, CONNECTIONS, trace>>
       ELSE /\ worker' = [worker EXCEPT ![a].queue = Tail(@)]
            /\ trace' = [trace EXCEPT
                            ![a].executed = Append(@, Head(worker[a].queue))]
            /\ UNCHANGED CONNECTIONS
            /\ ACCOUNTS' =
                    IF Head(worker[a].queue).cmd = "SET_STATUS"
                    THEN [ACCOUNTS EXCEPT ![AccountIndex(ACCOUNTS, a)].status =
                                Head(worker[a].queue).params[1]]
                    ELSE ACCOUNTS
    /\ UNCHANGED <<lock, control, link, client_roster, now, sessionFrame>>

\* for cmd, params in queue: the next command goes to the backend
\* (_set_status() keeps the status in self._status); after the last one,
\* update_buddies() starts with the keys of the roster
HqRun(a) ==
    /\ At(a, "hq_run")
    /\ IF worker[a].queue = <<>>
       THEN /\ worker' = [worker EXCEPT ![a].pc = "ub_build",
                                        ![a].buddies = <<>>,
                                        ![a].todo = client_roster[a]]
            /\ UNCHANGED <<CONNECTIONS, trace>>
       ELSE /\ worker' = [worker EXCEPT ![a].queue = Tail(@)]
            /\ trace' = [trace EXCEPT
                            ![a].executed = Append(@, Head(worker[a].queue)),
                            ![a].presence =
                                @ \o Presence(Head(worker[a].queue))]
            /\ CONNECTIONS' =
                    [CONNECTIONS EXCEPT
                        ![a] = HandleCommand(@, Head(worker[a].queue))]
    /\ UNCHANGED <<ACCOUNTS, lock, control, link, client_roster, now,
                   sessionFrame>>

\* ---- NuqqlClient.update_buddies().  A roster entry is the jid, its name
\* and the show values of its resources.
RECURSIVE LastShow(_, _)
LastShow(presence, status) ==
    IF presence = <<>> THEN status
    ELSE LastShow(Tail(presence),
                  IF Head(presence) # "" THEN Head(presence) ELSE status)

\* the status of a roster entry: "offline" without a resource, "available"
\* with one, the show value of the last resource that has one
BuddyStatus(presence) ==
    IF presence = <<>> THEN "offline" ELSE LastShow(presence, "available")

\* an update_buddies() that passes over nothing: a room that was left is a
\* buddy like any other
RosterBuddy_unfiltered(entry, client) ==
    IF entry.jid \in client.joined
    THEN <<Buddy(entry.jid, entry.name, "GROUP_CHAT")>>
    ELSE <<Buddy(entry.jid, entry.name, BuddyStatus(entry.presence))>>

\* the buddy update_buddies() makes of a roster entry: a joined room is a
\* GROUP_CHAT, a room of self.muc_cache that is joined no more is passed
\* over, everything else has the status of its presence
RosterBuddy(entry, client) ==
    IF entry.jid \in client.joined
    THEN <<Buddy(entry.jid, entry.name, "GROUP_CHAT")>>
    ELSE IF entry.jid \in client.muc_cache
    THEN <<>>
    ELSE <<Buddy(entry.jid, entry.name, BuddyStatus(entry.presence))>>

\* for invite in self.muc_invites.values(): the pending invites as buddies
InviteBuddies(muc_invites) ==
    [i \in 1..Len(muc_invites) |->
        Buddy(muc_invites[i], muc_invites[i], "GROUP_CHAT_INVITE")]

\* for jid in self.client_roster.keys(): the next buddy goes to the list and
\* its invite leaves the cache, unless the entry is passed over; after the
\* last one the pending invites go to the list
UbBuild(a) ==
    /\ At(a, "ub_build")
    /\ IF worker[a].todo = <<>>
       THEN /\ worker' = [worker EXCEPT
                ![a].pc = "ub_acquire",
                ![a].buddies = @ \o InviteBuddies(CONNECTIONS[a].muc_invites)]
            /\ CONNECTIONS' = [CONNECTIONS EXCEPT
                ![a].buddies = Building(@, worker'[a].buddies)]
       ELSE /\ worker' = [worker EXCEPT
                ![a].todo = Tail(@),
                ![a].buddies =
                    @ \o RosterBuddy(Head(worker[a].todo), CONNECTIONS[a])]
            /\ CONNECTIONS' = [CONNECTIONS EXCEPT
                ![a].buddies = Building(@, worker'[a].buddies),
                ![a].muc_invites =
                    IF RosterBuddy(Head(worker[a].todo), CONNECTIONS[a]) = <<>>
                    THEN @
                    ELSE WithoutInvite(@, Head(worker[a].todo).jid)]
    /\ UNCHANGED <<ACCOUNTS, lock, control, link, client_roster, now, trace,
                   sessionFrame>>

UbAcquire(a) ==
    /\ At(a, "ub_acquire")
    /\ CanAcquire(lock[a])
    /\ lock' = [lock EXCEPT ![a] = "worker"]
    /\ Goto(a, "ub_assign")
    /\ UNCHANGED <<ACCOUNTS, CONNECTIONS, control, link, client_roster, now,
                   trace, sessionFrame>>

\* self.buddies = buddies
UbAssign(a) ==
    /\ At(a, "ub_assign")
    /\ CONNECTIONS' = [CONNECTIONS EXCEPT ![a].buddies = worker[a].buddies]
    /\ trace' = [trace EXCEPT ![a].complete = worker[a].buddies]
    /\ Goto(a, "ub_release")
    /\ UNCHANGED <<ACCOUNTS, lock, control, link, client_roster, now,
                   sessionFrame>>

UbRelease(a) ==
    /\ At(a, "ub_release")
    /\ lock' = [lock EXCEPT ![a] = "free"]
    /\ Goto(a, "loop")
    /\ UNCHANGED <<ACCOUNTS, CONNECTIONS, control, link, client_roster, now,
                   trace, sessionFrame>>

\* a _session_start() that sets no previously configured status
Configured_never(status) == <<>>

\* if self._status: self._set_status(self._status)
Configured(status) == IF status # "" THEN <<status>> ELSE <<>>

\* ---- the event handlers of NuqqlClient, run by xmpp.process()
\* _session_start(): the account is online; a status kept in self._status is
\* set again, which leaves self._status as it is
NuqqlClient_session_start(a) ==
    /\ At(a, "process")
    /\ link[a] = "connecting"
    /\ link' = [link EXCEPT ![a] = "up"]
    /\ ACCOUNTS' = WithStatus(ACCOUNTS, a, "online")
    /\ trace' = [trace EXCEPT
                    ![a].presence = <<"">> \o Configured(CONNECTIONS[a]._status)]
    /\ UNCHANGED <<CONNECTIONS, lock, worker, control, client_roster, now,
                   sessionFrame>>

\* a _disconnected() that also forgets the pending invites
NuqqlClient_disconnected_forgetful(a) ==
    /\ At(a, "process")
    /\ link[a] \in {"connecting", "up"}
    /\ link' = [link EXCEPT ![a] = "down"]
    /\ ACCOUNTS' = WithStatus(ACCOUNTS, a, "offline")
    /\ CONNECTIONS' = [CONNECTIONS EXCEPT ![a].buddies = <<>>,
                                          ![a].muc_invites = <<>>]
    /\ trace' = [trace EXCEPT ![a].complete = <<>>, ![a].presence = <<>>]
    /\ UNCHANGED <<lock, worker, control, client_roster, now, sessionFrame>>

\* _disconnected(): the account is offline, the buddy list is flushed
NuqqlClient_disconnected(a) ==
    /\ At(a, "process")
    /\ link[a] \in {"connecting", "up"}
    /\ link' = [link EXCEPT ![a] = "down"]
    /\ ACCOUNTS' = WithStatus(ACCOUNTS, a, "offline")
    /\ CONNECTIONS' = [CONNECTIONS EXCEPT ![a].buddies = <<>>]
    /\ trace' = [trace EXCEPT ![a].complete = <<>>, ![a].presence = <<>>]
    /\ UNCHANGED <<lock, worker, control, client_roster, now, sessionFrame>>

\* slixmpp takes a roster push or a presence: the roster changes
RosterPush(a, roster) ==
    /\ At(a, "process")
    /\ link[a] = "up"
    /\ client_roster[a] # roster
    /\ client_roster' = [client_roster EXCEPT ![a] = roster]
    /\ UNCHANGED <<ACCOUNTS, CONNECTIONS, lock, worker, control, link, now,
                   trace, sessionFrame>>

\* message(): a chat message is formatted
MsgEvent(a, sender, body) ==
    /\ At(a, "process")
    /\ link[a] = "up"
    /\ Len(trace[a].arrived) < MaxMessages
    /\ worker' = [worker EXCEPT
            ![a].pc = "msg_acquire",
            ![a].msg = format_message(a, now, sender,
                            ACCOUNTS[AccountIndex(ACCOUNTS, a)].user, body)]
    /\ trace' = [trace EXCEPT ![a].events =
                    Append(@, [kind |-> "message", text |-> worker'[a].msg])]
    /\ UNCHANGED <<ACCOUNTS, CONNECTIONS, lock, control, link, client_roster,
                   now, sessionFrame>>

MsgAcquire(a) ==
    /\ At(a, "msg_acquire")
    /\ CanAcquire(lock[a])
    /\ lock' = [lock EXCEPT ![a] = "worker"]
    /\ Goto(a, "msg_messages")
    /\ UNCHANGED <<ACCOUNTS, CONNECTIONS, control, link, client_roster, now,
                   trace, sessionFrame>>

\* self.messages.append(formated_msg)
MsgAppendMessages(a) ==
    /\ At(a, "msg_messages")
    /\ CONNECTIONS' = [CONNECTIONS EXCEPT
                            ![a].messages = Append(@, worker[a].msg)]
    /\ trace' = [trace EXCEPT ![a].arrived = Append(@, worker[a].msg)]
    /\ Goto(a, "msg_history")
    /\ UNCHANGED <<ACCOUNTS, lock, control, link, client_roster, now,
                   sessionFrame>>

\* a message() that leaves the history as it is
MsgAppendHistory_skipped(a) ==
    /\ At(a, "msg_history")
    /\ Goto(a, "msg_release")
    /\ UNCHANGED <<ACCOUNTS, CONNECTIONS, lock, control, link, client_roster,
                   now, trace, sessionFrame>>

\* self.history.append(formated_msg)
MsgAppendHistory(a) ==
    /\ At(a, "msg_history")
    /\ CONNECTIONS' = [CONNECTIONS EXCEPT
                            ![a].history = Append(@, worker[a].msg)]
    /\ Goto(a, "msg_release")
    /\ UNCHANGED <<ACCOUNTS, lock, control, link, client_roster, now, trace,
                   sessionFrame>>

MsgRelease(a) ==
    /\ At(a, "msg_release")
    /\ lock' = [lock EXCEPT ![a] = "free"]
    /\ Goto(a, "process")
    /\ UNCHANGED <<ACCOUNTS, CONNECTIONS, control, link, client_roster, now,
                   trace, sessionFrame>>

\* muc_message(): a groupchat message that is not our own is formatted; our
\* nick in a chat is our jid (_chat_join)
MucMsgEvent(a, nick, chat, body) ==
    /\ At(a, "process")
    /\ link[a] = "up"
    /\ Len(trace[a].events) < MaxEvents
    /\ nick # ACCOUNTS[AccountIndex(ACCOUNTS, a)].user
    /\ worker' = [worker EXCEPT
            ![a].pc = "msg_acquire",
            ![a].msg = format_chat_msg(a, now, nick, chat, body)]
    /\ trace' = [trace EXCEPT ![a].events =
                    Append(@, [kind |-> "groupchat", text |-> worker'[a].msg])]
    /\ UNCHANGED <<ACCOUNTS, CONNECTIONS, lock, control, link, client_roster,
                   now, sessionFrame>>

\* _muc_presence(): a user other than us comes into a joined chat or leaves
\* it
PresenceEvent(a, nick, chat, status) ==
    /\ At(a, "process")
    /\ link[a] = "up"
    /\ Len(trace[a].events) < MaxEvents
    /\ nick # ACCOUNTS[AccountIndex(ACCOUNTS, a)].user
    /\ worker' = [worker EXCEPT
            ![a].pc = "pres_acquire",
            ![a].msg = Format_CHAT_USER(a, chat, nick, nick, status)]
    /\ trace' = [trace EXCEPT ![a].events =
                    Append(@, [kind |-> "presence", text |-> worker'[a].msg])]
    /\ UNCHANGED <<ACCOUNTS, CONNECTIONS, lock, control, link, client_roster,
                   now, sessionFrame>>

PresAcquire(a) ==
    /\ At(a, "pres_acquire")
    /\ CanAcquire(lock[a])
    /\ lock' = [lock EXCEPT ![a] = "worker"]
    /\ Goto(a, "pres_messages")
    /\ UNCHANGED <<ACCOUNTS, CONNECTIONS, control, link, client_roster, now,
                   trace, sessionFrame>>

\* "append to messages only": self.messages.append(msg)
PresAppendMessages(a) ==
    /\ At(a, "pres_messages")
    /\ CONNECTIONS' = [CONNECTIONS EXCEPT
                            ![a].messages = Append(@, worker[a].msg)]
    /\ trace' = [trace EXCEPT ![a].arrived = Append(@, worker[a].msg)]
    /\ Goto(a, "pres_release")
    /\ UNCHANGED <<ACCOUNTS, lock, control, link, client_roster, now,
                   sessionFrame>>

PresRelease(a) ==
    /\ At(a, "pres_release")
    /\ lock' = [lock EXCEPT ![a] = "free"]
    /\ Goto(a, "process")
    /\ UNCHANGED <<ACCOUNTS, CONNECTIONS, control, link, client_roster, now,
                   trace, sessionFrame>>

\* _muc_invite(): self.muc_invites[chat] = (user, chat)
NuqqlClient_muc_invite(a, chat) ==
    /\ At(a, "process")
    /\ link[a] = "up"
    /\ Len(trace[a].events) < MaxEvents
    /\ CONNECTIONS' = [CONNECTIONS EXCEPT ![a].muc_invites =
                            IF \E i \in 1..Len(@) : @[i] = chat
                            THEN @ ELSE Append(@, chat)]
    /\ trace' = [trace EXCEPT ![a].events =
                    Append(@, [kind |-> "invite", text |-> chat])]
    /\ UNCHANGED <<ACCOUNTS, lock, worker, control, link, client_roster, now,
                   sessionFrame>>

\* ---- the server thread in the methods of the client
\* enqueue(): xmpp.enqueue_command(cmd, params) is called
EnqCall(a, command) ==
    /\ control.pc = "idle"
    /\ a \in DOMAIN CONNECTIONS
    /\ Len(trace[a].submitted) < MaxCommands
    /\ control' = [pc |-> "enq_acquire", aid |-> a, local |-> <<command>>]
    /\ trace' = [trace EXCEPT ![a].submitted = Append(@, command)]
    /\ UNCHANGED <<ACCOUNTS, CONNECTIONS, lock, worker, link, client_roster,
                   now, sessionFrame>>

EnqAcquire(a) ==
    /\ ControlAt(a, "enq_acquire")
    /\ CanAcquire(lock[a])
    /\ lock' = [lock EXCEPT ![a] = "control"]
    /\ control' = [control EXCEPT !.pc = "enq_append"]
    /\ UNCHANGED <<ACCOUNTS, CONNECTIONS, worker, link, client_roster, now,
                   trace, sessionFrame>>

\* self.queue.append((cmd, params))
EnqAppend(a) ==
    /\ ControlAt(a, "enq_append")
    /\ CONNECTIONS' = [CONNECTIONS EXCEPT
                            ![a].queue = Append(@, control.local[1])]
    /\ control' = [control EXCEPT !.pc = "enq_release"]
    /\ UNCHANGED <<ACCOUNTS, lock, worker, link, client_roster, now, trace,
                   sessionFrame>>

EnqRelease(a) ==
    /\ ControlAt(a, "enq_release")
    /\ lock' = [lock EXCEPT ![a] = "free"]
    /\ control' = Idle
    /\ UNCHANGED <<ACCOUNTS, CONNECTIONS, worker, link, client_roster, now,
                   trace, sessionFrame>>

\* handle_incoming(): the GET_MESSAGES callback calls xmpp.get_messages()
GmCall(a) ==
    /\ control.pc = "idle"
    /\ a \in DOMAIN CONNECTIONS
    /\ control' = [pc |-> "gm_acquire", aid |-> a, local |-> <<>>]
    /\ UNCHANGED <<ACCOUNTS, CONNECTIONS, lock, worker, link, client_roster,
                   now, trace, sessionFrame>>

GmAcquire(a) ==
    /\ ControlAt(a, "gm_acquire")
    /\ CanAcquire(lock[a])
    /\ lock' = [lock EXCEPT ![a] = "control"]
    /\ control' = [control EXCEPT !.pc = "gm_copy"]
    /\ UNCHANGED <<ACCOUNTS, CONNECTIONS, worker, link, client_roster, now,
                   trace, sessionFrame>>

\* messages = self.messages[:]
GmCopy(a) ==
    /\ ControlAt(a, "gm_copy")
    /\ control' = [control EXCEPT !.pc = "gm_flush",
                                  !.local = CONNECTIONS[a].messages]
    /\ UNCHANGED <<ACCOUNTS, CONNECTIONS, lock, worker, link, client_roster,
                   now, trace, sessionFrame>>

\* a get_messages() that flushes the history with the new messages
GmFlush_history(a) ==
    /\ ControlAt(a, "gm_flush")
    /\ CONNECTIONS' = [CONNECTIONS EXCEPT ![a].messages = <<>>,
                                         ![a].history = <<>>]
    /\ control' = [control EXCEPT !.pc = "gm_release"]
    /\ UNCHANGED <<ACCOUNTS, lock, worker, link, client_roster, now, trace,
                   sessionFrame>>

\* self.messages = []
GmFlush(a) ==
    /\ ControlAt(a, "gm_flush")
    /\ CONNECTIONS' = [CONNECTIONS EXCEPT ![a].messages = <<>>]
    /\ control' = [control EXCEPT !.pc = "gm_release"]
    /\ UNCHANGED <<ACCOUNTS, lock, worker, link, client_roster, now, trace,
                   sessionFrame>>

\* a get_messages() that returns with the Lock still held
GmRelease_kept(a) ==
    /\ ControlAt(a, "gm_release")
    /\ control' = [control EXCEPT !.pc = "gm_send"]
    /\ UNCHANGED <<ACCOUNTS, CONNECTIONS, lock, worker, link, client_roster,
                   now, trace, sessionFrame>>

GmRelease(a) ==
    /\ ControlAt(a, "gm_release")
    /\ lock' = [lock EXCEPT ![a] = "free"]
    /\ control' = [control EXCEPT !.pc = "gm_send"]
    /\ UNCHANGED <<ACCOUNTS, CONNECTIONS, worker, link, client_roster, now,
                   trace, sessionFrame>>

\* handle_incoming(): the messages returned go to the client
GmSend(a) ==
    /\ ControlAt(a, "gm_send")
    /\ trace' = [trace EXCEPT ![a].delivered = @ \o control.local]
    /\ control' = Idle
    /\ UNCHANGED <<ACCOUNTS, CONNECTIONS, lock, worker, link, client_roster,
                   now, sessionFrame>>

\* the update_buddies() callback: xmpp.account.buddies = []
UbcCall(a) ==
    /\ control.pc = "idle"
    /\ a \in DOMAIN CONNECTIONS
    /\ ACCOUNTS' = [ACCOUNTS EXCEPT
                        ![AccountIndex(ACCOUNTS, a)].buddies = <<>>]
    /\ control' = [pc |-> "ubc_acquire", aid |-> a, local |-> <<>>]
    /\ UNCHANGED <<CONNECTIONS, lock, worker, link, client_roster, now, trace,
                   sessionFrame>>

UbcAcquire(a) ==
    /\ ControlAt(a, "ubc_acquire")
    /\ CanAcquire(lock[a])
    /\ lock' = [lock EXCEPT ![a] = "control"]
    /\ control' = [control EXCEPT !.pc = "ubc_for"]
    /\ UNCHANGED <<ACCOUNTS, CONNECTIONS, worker, link, client_roster, now,
                   trace, sessionFrame>>

\* for buddy in xmpp.buddies: the loop takes the list self.buddies refers to
\* now; no code changes a list that self.buddies has referred to
UbcFor(a) ==
    /\ ControlAt(a, "ubc_for")
    /\ control' = [control EXCEPT !.pc = "ubc_next",
                                  !.local = CONNECTIONS[a].buddies]
    /\ trace' = [trace EXCEPT ![a].snap_old = trace[a].complete]
    /\ UNCHANGED <<ACCOUNTS, CONNECTIONS, lock, worker, link, client_roster,
                   now, sessionFrame>>

\* xmpp.account.buddies.append(buddy), for the next buddy of that list
UbcNext(a) ==
    /\ ControlAt(a, "ubc_next")
    /\ IF control.local = <<>>
       THEN /\ control' = [control EXCEPT !.pc = "ubc_release"]
            /\ UNCHANGED ACCOUNTS
       ELSE /\ control' = [control EXCEPT !.local = Tail(@)]
            /\ ACCOUNTS' = [ACCOUNTS EXCEPT
                    ![AccountIndex(ACCOUNTS, a)].buddies =
                        Append(@, Head(control.local))]
    /\ UNCHANGED <<CONNECTIONS, lock, worker, link, client_roster, now, trace,
                   sessionFrame>>

UbcRelease(a) ==
    /\ ControlAt(a, "ubc_release")
    /\ lock' = [lock EXCEPT ![a] = "free"]
    /\ control' = Idle
    /\ UNCHANGED <<ACCOUNTS, CONNECTIONS, worker, link, client_roster, now,
                   trace, sessionFrame>>

\* thread.join() returns when run_client() has returned, and a join that
\* waits for nothing
Joined_at_once(w) == TRUE

Joined(w) == w.pc = "exited"

\* ---- "account <id> delete" for an account with a session, in the server
\* thread.  handle_account_delete(): del ACCOUNTS[acc_id], store_accounts()
\* and the DEL_ACCOUNT callback; del_account(): running.clear(), and
\* thread.join() is called
DelCall(a) ==
    /\ control = Idle
    /\ a \in AccountIds(ACCOUNTS)
    /\ a \in DOMAIN THREADS
    /\ ACCOUNTS' = DelAccount(ACCOUNTS, a)
    /\ accounts_file' =
            store_accounts([State EXCEPT !.ACCOUNTS = DelAccount(@, a)],
                           "written").accounts_file
    /\ THREADS' = [THREADS EXCEPT ![a] = FALSE]
    /\ line' = <<"account", ToString(a), "delete">>
    /\ fired' = <<[cb |-> "DEL_ACCOUNT", aid |-> a, params |-> <<>>]>>
    /\ enqueued' = <<>>
    /\ result' = [cmd |-> "", reply |-> <<>>, exc |-> ""]
    /\ control' = [pc |-> "del_join", aid |-> a, local |-> <<>>]
    /\ UNCHANGED <<CALLBACKS, CONNECTIONS, connVars, lock, worker, link,
                   client_roster, now, trace>>

\* thread.join() returns
DelJoin(a) ==
    /\ ControlAt(a, "del_join")
    /\ Joined(worker[a])
    /\ control' = [control EXCEPT !.pc = "del_connection"]
    /\ UNCHANGED <<dispVars, connVars, lock, worker, link, client_roster, now,
                   trace>>

\* del CONNECTIONS[account_id]
DelConnection(a) ==
    /\ ControlAt(a, "del_connection")
    /\ CONNECTIONS' = [c \in DOMAIN CONNECTIONS \ {a} |-> CONNECTIONS[c]]
    /\ control' = [control EXCEPT !.pc = "del_thread"]
    /\ UNCHANGED <<ACCOUNTS, CALLBACKS, accounts_file, THREADS, line, result,
                   fired, enqueued, connVars, lock, worker, link,
                   client_roster, now, trace>>

\* del THREADS[account_id]; del_account() and handle_account_delete() return
DelThread(a) ==
    /\ ControlAt(a, "del_thread")
    /\ THREADS' = [c \in DOMAIN THREADS \ {a} |-> THREADS[c]]
    /\ result' = [cmd |-> "msg",
                  reply |-> Format_INFO("account " \o ToString(a)
                                        \o " deleted."),
                  exc |-> ""]
    /\ control' = Idle
    /\ UNCHANGED <<ACCOUNTS, CALLBACKS, accounts_file, CONNECTIONS, line,
                   fired, enqueued, connVars, lock, worker, link,
                   client_roster, now, trace>>

\* ---- the sessions the specifications start with
\* the sessions of the accounts that have a worker, each as run_client()
\* leaves it at ready.set()
SessionsStarted ==
    /\ lock = [a \in DOMAIN THREADS |-> "free"]
    /\ worker = [a \in DOMAIN THREADS |-> RunClient(0)]
    /\ control = Idle
    /\ link = [a \in DOMAIN THREADS |-> "connecting"]
    /\ client_roster = [a \in DOMAIN THREADS |-> <<>>]
    /\ now = 0
    /\ trace = [a \in DOMAIN THREADS |-> NewTrace(0)]

\* the server has handled "account add xmpp alice secret"
InitSession ==
    /\ StartedWith(RunLines(Boot, SubSeq(EarlierLines, 1, 1)))
    /\ InitConnection
    /\ SessionsStarted

\* the loop of the worker of a session
WorkerLoop ==
    \/ \E a \in DOMAIN worker : WhileRunning(a)
    \/ \E a \in DOMAIN worker : Processed(a)
    \/ \E a \in DOMAIN worker : CheckStatus(a)
    \/ \E a \in DOMAIN worker : HqAcquire(a)
    \/ \E a \in DOMAIN worker : HqCopy(a)
    \/ \E a \in DOMAIN worker : HqFlush(a)
    \/ \E a \in DOMAIN worker : HqRelease(a)
    \/ \E a \in DOMAIN worker : HqRun(a)
    \/ \E a \in DOMAIN worker : UbBuild(a)
    \/ \E a \in DOMAIN worker : UbAcquire(a)
    \/ \E a \in DOMAIN worker : UbAssign(a)
    \/ \E a \in DOMAIN worker : UbRelease(a)

(***************************************************************************)
(* SpecQueue: the worker of a session and the server thread enqueuing      *)
(* commands for it.                                                        *)
(***************************************************************************)
Commands ==
    {[cmd |-> "SEND_MESSAGE",
      params |-> <<"bob", "hi",
                   "<body xmlns=\"http://www.w3.org/1999/xhtml\">hi</body>",
                   "chat">>],
     [cmd |-> "SET_STATUS", params |-> <<"away">>]}

Enqueuing ==
    \/ \E a \in DOMAIN worker, command \in Commands : EnqCall(a, command)
    \/ \E a \in DOMAIN worker : EnqAcquire(a)
    \/ \E a \in DOMAIN worker : EnqAppend(a)
    \/ \E a \in DOMAIN worker : EnqRelease(a)

InitQueue == InitSession
NextQueue ==
    \/ WorkerLoop
    \/ \E a \in DOMAIN worker : NuqqlClient_session_start(a)
    \/ \E a \in DOMAIN worker : NuqqlClient_disconnected(a)
    \/ Enqueuing
SpecQueue == InitQueue /\ [][NextQueue]_vars

(***************************************************************************)
(* SpecInbound: the worker of a session receiving messages and the server  *)
(* thread draining them.                                                   *)
(***************************************************************************)
Senders == {"bob@example.org"}
Bodies == {"hi", "a<b"}

Receiving ==
    \/ \E a \in DOMAIN worker, sender \in Senders, body \in Bodies :
            MsgEvent(a, sender, body)
    \/ \E a \in DOMAIN worker : MsgAcquire(a)
    \/ \E a \in DOMAIN worker : MsgAppendMessages(a)
    \/ \E a \in DOMAIN worker : MsgAppendHistory(a)
    \/ \E a \in DOMAIN worker : MsgRelease(a)

Draining ==
    \/ \E a \in DOMAIN worker : GmCall(a)
    \/ \E a \in DOMAIN worker : GmAcquire(a)
    \/ \E a \in DOMAIN worker : GmCopy(a)
    \/ \E a \in DOMAIN worker : GmFlush(a)
    \/ \E a \in DOMAIN worker : GmRelease(a)
    \/ \E a \in DOMAIN worker : GmSend(a)

InitInbound == InitSession
NextInbound ==
    \/ WorkerLoop
    \/ \E a \in DOMAIN worker : NuqqlClient_session_start(a)
    \/ Receiving
    \/ Draining
SpecInbound == InitInbound /\ [][NextInbound]_vars

(***************************************************************************)
(* SpecEvents: the worker of a session with the events of all kinds        *)
(* (message, groupchat message, presence in a chat, invite), disconnects   *)
(* and reconnects, and the server thread draining the new messages and     *)
(* handling "account <id> collect".  collect() only reads under the Lock:  *)
(* the server thread handles the line while the Lock is free.              *)
(***************************************************************************)
Chats == {"room@muc.example.org"}
Nicks == {"bob", "alice"}

CollectLines ==
    {<<"account", "0", "collect">>, <<"account", "0", "collect", "99">>}

CollectCommand ==
    /\ control = Idle
    /\ \A a \in DOMAIN lock : lock[a] = "free"
    /\ \E parts \in CollectLines : Dispatch(parts, "written")
    /\ UNCHANGED <<connVars, sessVars>>

ChatEvents ==
    \/ \E a \in DOMAIN worker, sender \in Senders :
            Len(trace[a].events) < MaxEvents /\ MsgEvent(a, sender, "hi")
    \/ \E a \in DOMAIN worker : MsgAcquire(a)
    \/ \E a \in DOMAIN worker : MsgAppendMessages(a)
    \/ \E a \in DOMAIN worker : MsgAppendHistory(a)
    \/ \E a \in DOMAIN worker : MsgRelease(a)
    \/ \E a \in DOMAIN worker, nick \in Nicks, chat \in Chats :
            MucMsgEvent(a, nick, chat, "hi")
    \/ \E a \in DOMAIN worker, nick \in Nicks, chat \in Chats :
            PresenceEvent(a, nick, chat, "online")
    \/ \E a \in DOMAIN worker : PresAcquire(a)
    \/ \E a \in DOMAIN worker : PresAppendMessages(a)
    \/ \E a \in DOMAIN worker : PresRelease(a)
    \/ \E a \in DOMAIN worker, chat \in Chats : NuqqlClient_muc_invite(a, chat)

\* ReconnectInterval seconds pass
Wait ==
    /\ now + ReconnectInterval <= MaxTime
    /\ now' = now + ReconnectInterval
    /\ UNCHANGED <<dispVars, connVars, lock, worker, control, link,
                   client_roster, trace>>

InitEvents == InitSession
NextEvents ==
    \/ WorkerLoop
    \/ \E a \in DOMAIN worker : NuqqlClient_session_start(a)
    \/ \E a \in DOMAIN worker : NuqqlClient_disconnected(a)
    \/ ChatEvents
    \/ Draining
    \/ CollectCommand
    \/ Wait
SpecEvents == InitEvents /\ [][NextEvents]_vars

(***************************************************************************)
(* SpecRoster: the worker of a session refreshing the roster snapshot,     *)
(* disconnects, and the server thread copying the snapshot.                *)
(***************************************************************************)
Rosters ==
    {<<>>,
     <<[jid |-> "bob@example.org", name |-> "Bob", presence |-> <<"">>],
       [jid |-> "carol@example.org", name |-> "", presence |-> <<>>]>>,
     <<[jid |-> "bob@example.org", name |-> "Bob",
        presence |-> <<"", "away">>],
       [jid |-> "carol@example.org", name |-> "", presence |-> <<"">>],
       [jid |-> "dave@example.org", name |-> "Dave", presence |-> <<"dnd">>]>>}

Copying ==
    \/ \E a \in DOMAIN worker : UbcCall(a)
    \/ \E a \in DOMAIN worker : UbcAcquire(a)
    \/ \E a \in DOMAIN worker : UbcFor(a)
    \/ \E a \in DOMAIN worker : UbcNext(a)
    \/ \E a \in DOMAIN worker : UbcRelease(a)

InitRoster == InitSession
NextRoster ==
    \/ WorkerLoop
    \/ \E a \in DOMAIN worker : NuqqlClient_session_start(a)
    \/ \E a \in DOMAIN worker : NuqqlClient_disconnected(a)
    \/ \E a \in DOMAIN worker, roster \in Rosters : RosterPush(a, roster)
    \/ Copying
SpecRoster == InitRoster /\ [][NextRoster]_vars

(***************************************************************************)
(* SpecOffline: the worker of a session that goes online and offline while *)
(* the server thread enqueues commands and the roster changes.             *)
(***************************************************************************)
InitOffline == InitSession
NextOffline ==
    \/ WorkerLoop
    \/ \E a \in DOMAIN worker : NuqqlClient_session_start(a)
    \/ \E a \in DOMAIN worker : NuqqlClient_disconnected(a)
    \/ \E a \in DOMAIN worker, roster \in Rosters : RosterPush(a, roster)
    \/ Enqueuing
SpecOffline == InitOffline /\ [][NextOffline]_vars

(***************************************************************************)
(* SpecStatus: the worker of a session that goes online and offline and    *)
(* connects again, while the client sends commands for the account: the    *)
(* server thread enqueues status commands, which the worker executes, and  *)
(* handles the lines that leave the session tables alone.                  *)
(***************************************************************************)
StatusCommands ==
    {[cmd |-> "SET_STATUS", params |-> <<"offline">>],
     [cmd |-> "SET_STATUS", params |-> <<"online">>],
     [cmd |-> "GET_STATUS", params |-> <<>>]}

StatusLines ==
    {<<"account", "0", "status", "get">>,
     <<"account", "0", "status", "set", "offline">>,
     <<"account", "0", "send", "bob", "hi">>, <<"bye">>}

StatusCommand ==
    /\ control = Idle
    /\ \A a \in DOMAIN lock : lock[a] = "free"
    /\ \E parts \in StatusLines : Dispatch(parts, "written")
    /\ UNCHANGED <<connVars, sessVars>>

StatusEnqueuing ==
    \/ \E a \in DOMAIN worker, command \in StatusCommands : EnqCall(a, command)
    \/ \E a \in DOMAIN worker : EnqAcquire(a)
    \/ \E a \in DOMAIN worker : EnqAppend(a)
    \/ \E a \in DOMAIN worker : EnqRelease(a)

InitStatus == InitSession
NextStatus ==
    \/ WorkerLoop
    \/ \E a \in DOMAIN worker : NuqqlClient_session_start(a)
    \/ \E a \in DOMAIN worker : NuqqlClient_disconnected(a)
    \/ StatusEnqueuing
    \/ StatusCommand
    \/ Wait
SpecStatus == InitStatus /\ [][NextStatus]_vars

(***************************************************************************)
(* SpecBackoff: the worker of a session, the clock, and the disconnect     *)
(* handler of client.py, which connects again by itself.                   *)
(***************************************************************************)
\* client.py: self.shutdown = False in __init__(), assigned nowhere else
BackendClient_shutdown == FALSE

\* client.py, _disconnected(): the account is offline; connect() unless the
\* client shuts down
BackendClient_disconnected(a) ==
    /\ At(a, "process")
    /\ link[a] \in {"connecting", "up"}
    /\ ACCOUNTS' = WithStatus(ACCOUNTS, a, "offline")
    /\ IF ~BackendClient_shutdown
       THEN /\ link' = [link EXCEPT ![a] = "connecting"]
            /\ trace' = [trace EXCEPT ![a].attempts = Attempted(@, now),
                                      ![a].presence = <<>>]
       ELSE /\ link' = [link EXCEPT ![a] = "down"]
            /\ trace' = [trace EXCEPT ![a].presence = <<>>]
    /\ UNCHANGED <<CONNECTIONS, lock, worker, control, client_roster, now,
                   sessionFrame>>

\* a second passes
Tick ==
    /\ now < MaxTime
    /\ now' = now + 1
    /\ UNCHANGED <<dispVars, connVars, lock, worker, control, link,
                   client_roster, trace>>

InitBackoff == InitSession
NextBackoff ==
    \/ WorkerLoop
    \/ \E a \in DOMAIN worker : NuqqlClient_session_start(a)
    \/ \E a \in DOMAIN worker : BackendClient_disconnected(a)
    \/ Tick
SpecBackoff == InitBackoff /\ [][NextBackoff]_vars

(***************************************************************************)
(* SpecShutdown: the workers of the sessions, the client's "quit" and the  *)
(* end of main().  The handler runs in the main thread (socketserver's     *)
(* TCPServer): sys.exit() of handle() leaves serve_forever() and           *)
(* run_server(), and main() goes on in its finally block.  An exception    *)
(* other than SystemExit stays in the server: it drops the connection.     *)
(***************************************************************************)
LaterLine == <<"account", "add", "xmpp", "carol", "secret">>

\* the registries the server is quit with: one session, one session and an
\* account without session, two sessions
Registries ==
    {SubSeq(EarlierLines, 1, 1), EarlierLines, <<EarlierLines[1], LaterLine>>}

\* main() in its finally block: the threads it has yet to join
Joining(threads) == [pc |-> "join", todo |-> Sorted(DOMAIN threads)]

\* main() after sys.exit(): the process is over
Terminated == [pc |-> "terminated"]

\* what handle() does with the result of the "quit" line
QuitHandled(r) ==
    /\ Handled(r, <<"quit">>)
    /\ conn' = IF r.exc # "" THEN "closed" ELSE "exited"
    /\ loop_cmd' = IF r.exc # "" THEN loop_cmd ELSE <<"quit">>
    /\ control' = IF r.exc # "" THEN Idle ELSE Joining(r.st.THREADS)

\* the client sends "quit": handle_msg() fires QUIT for every account and
\* returns ("quit", "Goodbye."), handle_messages() returns "quit" and sends
\* nothing, handle() calls sys.exit()
Quit ==
    /\ conn = "open"
    /\ control = Idle
    /\ QuitHandled(handle_msg(State, <<"quit">>, "written"))
    /\ UNCHANGED <<buffer, received, dispatched, sent, server, lock, worker,
                   link, client_roster, now, trace>>

\* for thread, _running in THREADS.values(): thread.join()
JoinThread ==
    /\ control.pc = "join"
    /\ control.todo # <<>>
    /\ Joined(worker[Head(control.todo)])
    /\ control' = [control EXCEPT !.todo = Tail(@)]
    /\ UNCHANGED <<dispVars, connVars, lock, worker, link, client_roster, now,
                   trace>>

\* sys.exit() of main()
SysExit ==
    /\ control.pc = "join"
    /\ control.todo = <<>>
    /\ control' = Terminated
    /\ UNCHANGED <<dispVars, connVars, lock, worker, link, client_roster, now,
                   trace>>

InitShutdown ==
    /\ \E lines \in Registries : StartedWith(RunLines(Boot, lines))
    /\ InitConnection
    /\ SessionsStarted

NextShutdown ==
    \/ WorkerLoop
    \/ \E a \in DOMAIN worker : NuqqlClient_session_start(a)
    \/ \E a \in DOMAIN worker : NuqqlClient_disconnected(a)
    \/ Quit
    \/ JoinThread
    \/ SysExit
SpecShutdown == InitShutdown /\ [][NextShutdown]_vars

(***************************************************************************)
(* SpecDelete: the workers of the sessions and the client deleting the     *)
(* accounts that have one.                                                 *)
(***************************************************************************)
Deleting ==
    \/ \E a \in DOMAIN worker : DelCall(a)
    \/ \E a \in DOMAIN worker : DelJoin(a)
    \/ \E a \in DOMAIN worker : DelConnection(a)
    \/ \E a \in DOMAIN worker : DelThread(a)

InitDelete == InitShutdown
NextDelete ==
    \/ WorkerLoop
    \/ \E a \in DOMAIN worker : NuqqlClient_session_start(a)
    \/ \E a \in DOMAIN worker : NuqqlClient_disconnected(a)
    \/ Deleting
SpecDelete == InitDelete /\ [][NextDelete]_vars

(***************************************************************************)
(* SpecInterrupt: the workers of the sessions, the client's "quit", Ctrl-C *)
(* in the main thread and the end of main().  Every worker that can take a *)
(* step takes one in the end (the threads are scheduled by the operating   *)
(* system, process(timeout=0.1) returns), and so does main() in its        *)
(* finally block; the client and the keyboard owe the server nothing.      *)
(***************************************************************************)
\* the registry with an account without session ahead of an account with one
LoadedLines == <<EarlierLines[2], EarlierLines[1]>>

\* a step of run_client() in the worker of account a
WorkerStep(a) ==
    \/ WhileRunning(a)
    \/ Processed(a)
    \/ CheckStatus(a)
    \/ HqAcquire(a)
    \/ HqCopy(a)
    \/ HqFlush(a)
    \/ HqRelease(a)
    \/ HqRun(a)
    \/ UbBuild(a)
    \/ UbAcquire(a)
    \/ UbAssign(a)
    \/ UbRelease(a)

\* except KeyboardInterrupt in main(): running.clear() for every thread of
\* THREADS, then the finally block
Interrupt ==
    /\ control = Idle
    /\ THREADS' = [a \in DOMAIN THREADS |-> FALSE]
    /\ control' = Joining(THREADS)
    /\ UNCHANGED <<ACCOUNTS, CALLBACKS, accounts_file, CONNECTIONS, line,
                   result, fired, enqueued, connVars, lock, worker, link,
                   client_roster, now, trace>>

InitInterrupt ==
    /\ \E lines \in Registries \cup {LoadedLines} :
            StartedWith(RunLines(Boot, lines))
    /\ InitConnection
    /\ SessionsStarted

NextInterrupt ==
    \/ WorkerLoop
    \/ \E a \in DOMAIN worker : NuqqlClient_session_start(a)
    \/ \E a \in DOMAIN worker : NuqqlClient_disconnected(a)
    \/ Quit
    \/ Interrupt
    \/ JoinThread
    \/ SysExit
SpecInterrupt ==
    /\ InitInterrupt
    /\ [][NextInterrupt]_vars
    /\ \A a \in 0..(MaxAccounts - 1) : WF_vars(WorkerStep(a))
    /\ WF_vars(JoinThread)
    /\ WF_vars(SysExit)

(***************************************************************************)
(* SpecSessions: main() with the accounts of the accounts file, then the   *)
(* registry under "account add", "account <id> delete" and "account list". *)
(***************************************************************************)
\* load_accounts(): an Account for every section of the accounts file
load_accounts(file) ==
    LET ids == Sorted({r.id : r \in file})
        Section(i) == CHOOSE r \in file : r.id = ids[i]
    IN  [i \in 1..Len(ids) |->
            Account(Section(i).id, Section(i).type, Section(i).user,
                    Section(i).password)]

\* main(): add_account() for every loaded account of type xmpp
RECURSIVE StartClients(_, _)
StartClients(st, accounts) ==
    IF accounts = <<>> THEN st
    ELSE StartClients(IF Head(accounts).type = "xmpp"
                      THEN add_account(st, Head(accounts).aid, "ADD_ACCOUNT",
                                       <<>>).st
                      ELSE st,
                      Tail(accounts))

\* the program state after main() has loaded the accounts file, started the
\* clients and registered the callbacks
main(file) ==
    StartClients([Boot EXCEPT !.ACCOUNTS = load_accounts(file),
                              !.accounts_file = file],
                 load_accounts(file))

\* the accounts files main() finds: none, one xmpp account, an icq and an
\* xmpp account, an xmpp account with the id below it freed
PersistedFiles ==
    {{},
     {[id |-> 0, type |-> "xmpp", user |-> "alice", password |-> "secret"]},
     {[id |-> 0, type |-> "icq", user |-> "bob", password |-> "secret"],
      [id |-> 1, type |-> "xmpp", user |-> "alice", password |-> "secret"]},
     {[id |-> 1, type |-> "xmpp", user |-> "alice", password |-> "secret"]}}

InitSessions ==
    /\ \E file \in PersistedFiles : StartedWith(main(file))
    /\ InitConnection
    /\ NoWorkers

NextSessions == RegistryCommand
SpecSessions == InitSessions /\ [][NextSessions]_vars

(***************************************************************************)
(* SpecLocks: everything that writes to the client of a session, step by   *)
(* step: the worker with its queue and its roster snapshot, the event      *)
(* handlers inside process() (session start, disconnect, message, invite), *)
(* and the server thread enqueuing commands, draining the new messages and *)
(* copying the snapshot.                                                   *)
(***************************************************************************)
\* the rosters of the session: nobody, and bob
LockRosters ==
    {<<>>, <<[jid |-> "bob@example.org", name |-> "Bob", presence |-> <<"">>]>>}

InitLocks == InitSession
NextLocks ==
    \/ WorkerLoop
    \/ \E a \in DOMAIN worker : NuqqlClient_session_start(a)
    \/ \E a \in DOMAIN worker : NuqqlClient_disconnected(a)
    \/ \E a \in DOMAIN worker, roster \in LockRosters : RosterPush(a, roster)
    \/ \E a \in DOMAIN worker, sender \in Senders :
            Len(trace[a].events) < MaxEvents /\ MsgEvent(a, sender, "hi")
    \/ \E a \in DOMAIN worker : MsgAcquire(a)
    \/ \E a \in DOMAIN worker : MsgAppendMessages(a)
    \/ \E a \in DOMAIN worker : MsgAppendHistory(a)
    \/ \E a \in DOMAIN worker : MsgRelease(a)
    \/ \E a \in DOMAIN worker, chat \in Chats : NuqqlClient_muc_invite(a, chat)
    \/ \E a \in DOMAIN worker, command \in Commands :
            trace[a].submitted = <<>> /\ EnqCall(a, command)
    \/ \E a \in DOMAIN worker : EnqAcquire(a)
    \/ \E a \in DOMAIN worker : EnqAppend(a)
    \/ \E a \in DOMAIN worker : EnqRelease(a)
    \/ Draining
    \/ Copying
SpecLocks == InitLocks /\ [][NextLocks]_vars

(***************************************************************************)
(* SpecPair: two sessions, each with its worker and its Lock, and the one  *)
(* server thread that enqueues commands, drains the new messages and       *)
(* copies the roster snapshot of either.                                   *)
(***************************************************************************)
InitPair ==
    /\ StartedWith(RunLines(Boot, <<EarlierLines[1], LaterLine>>))
    /\ InitConnection
    /\ SessionsStarted

NextPair ==
    \/ WorkerLoop
    \/ \E a \in DOMAIN worker : NuqqlClient_session_start(a)
    \/ \E a \in DOMAIN worker, sender \in Senders :
            trace[a].events = <<>> /\ MsgEvent(a, sender, "hi")
    \/ \E a \in DOMAIN worker : MsgAcquire(a)
    \/ \E a \in DOMAIN worker : MsgAppendMessages(a)
    \/ \E a \in DOMAIN worker : MsgAppendHistory(a)
    \/ \E a \in DOMAIN worker : MsgRelease(a)
    \/ \E a \in DOMAIN worker :
            trace[a].submitted = <<>> /\ EnqCall(a, [cmd |-> "SET_STATUS", params |-> <<"away">>])
    \/ \E a \in DOMAIN worker : EnqAcquire(a)
    \/ \E a \in DOMAIN worker : EnqAppend(a)
    \/ \E a \in DOMAIN worker : EnqRelease(a)
    \/ Draining
    \/ Copying
SpecPair == InitPair /\ [][NextPair]_vars

(***************************************************************************)
(* SpecListing: the worker of a session refreshing the roster snapshot     *)
(* while the client sends messages, to buddies the roster names and to     *)
(* others, and asks for the buddies of the account.  The server thread     *)
(* handles a line while the Lock is free.                                  *)
(***************************************************************************)
ListingLines ==
    {<<"account", "0", "send", "eve", "hi">>,
     <<"account", "0", "send", "bob@example.org", "hi">>,
     <<"account", "0", "buddies">>,
     <<"account", "0", "buddies", "online">>}

\* the commands handle_msg() has passed on to the session
Passed(log) == [i \in 1..Len(log) |-> [cmd |-> log[i].cmd, params |-> log[i].params]]

ListingCommand ==
    /\ control = Idle
    /\ \A a \in DOMAIN lock : lock[a] = "free"
    /\ \E parts \in ListingLines : Dispatch(parts, "written")
    /\ Len(trace[0].submitted) + Len(enqueued') <= MaxCommands
    /\ trace' = [trace EXCEPT ![0].submitted = @ \o Passed(enqueued')]
    /\ UNCHANGED <<connVars, lock, worker, control, link, client_roster, now>>

InitListing == InitSession
NextListing ==
    \/ WorkerLoop
    \/ \E a \in DOMAIN worker : NuqqlClient_session_start(a)
    \/ \E a \in DOMAIN worker : NuqqlClient_disconnected(a)
    \/ \E a \in DOMAIN worker, roster \in LockRosters : RosterPush(a, roster)
    \/ ListingCommand
SpecListing == InitListing /\ [][NextListing]_vars

(***************************************************************************)
(* SpecRooms: the worker of a session building roster snapshots while the  *)
(* roster gains and loses a room, invites to the room arrive, the session  *)
(* goes offline and online, and the server thread enqueues "chat join" and *)
(* "chat part" for the room.                                               *)
(***************************************************************************)
Room == [jid |-> "room@muc.example.org", name |-> "", presence |-> <<"">>]
Bob == [jid |-> "bob@example.org", name |-> "Bob", presence |-> <<"", "away">>]

\* the rosters of the session: nobody, bob, the room and bob
RoomRosters == {<<>>, <<Bob>>, <<Room, Bob>>}

RoomCommands ==
    {[cmd |-> c, params |-> <<chat>>] :
        c \in {"CHAT_JOIN", "CHAT_PART"}, chat \in Chats}

InitRooms == InitSession
NextRooms ==
    \/ WorkerLoop
    \/ \E a \in DOMAIN worker : NuqqlClient_session_start(a)
    \/ \E a \in DOMAIN worker : NuqqlClient_disconnected(a)
    \/ \E a \in DOMAIN worker, roster \in RoomRosters : RosterPush(a, roster)
    \/ \E a \in DOMAIN worker, chat \in Chats : NuqqlClient_muc_invite(a, chat)
    \/ \E a \in DOMAIN worker, command \in RoomCommands : EnqCall(a, command)
    \/ \E a \in DOMAIN worker : EnqAcquire(a)
    \/ \E a \in DOMAIN worker : EnqAppend(a)
    \/ \E a \in DOMAIN worker : EnqRelease(a)
SpecRooms == InitRooms /\ [][NextRooms]_vars

(***************************************************************************)
(* SpecInvites: the pending invites of a session whose roster gains and    *)
(* loses the room, which goes offline and connects again, and for which    *)
(* the server thread enqueues "chat join" and "chat part".                 *)
(***************************************************************************)
InitInvites == InitSession
NextInvites ==
    \/ WorkerLoop
    \/ \E a \in DOMAIN worker : NuqqlClient_session_start(a)
    \/ \E a \in DOMAIN worker : NuqqlClient_disconnected(a)
    \/ \E a \in DOMAIN worker, roster \in {<<>>, <<Room>>} :
            RosterPush(a, roster)
    \/ \E a \in DOMAIN worker, chat \in Chats : NuqqlClient_muc_invite(a, chat)
    \/ \E a \in DOMAIN worker, command \in RoomCommands : EnqCall(a, command)
    \/ \E a \in DOMAIN worker : EnqAcquire(a)
    \/ \E a \in DOMAIN worker : EnqAppend(a)
    \/ \E a \in DOMAIN worker : EnqRelease(a)
    \/ Wait
SpecInvites == InitInvites /\ [][NextInvites]_vars

(***************************************************************************)
(* SpecRelay: handle() of the connected client, iteration by iteration:    *)
(* handle_incoming() drains the new messages of the session and sends      *)
(* them, select() waits 0.1 seconds at most for the client, and            *)
(* handle_messages() dispatches the line that came, if one came; meanwhile *)
(* the worker of the session receives messages.  The server thread and the *)
(* worker are threads of the operating system: each takes its next step in *)
(* the end, a lock.acquire() included when the Lock is free again and      *)
(* again.  The messages and the client's lines come as they please.        *)
(***************************************************************************)
\* the line of the client, which takes no Lock
RelayLines == {<<"help">>}

\* a handle_incoming() that drops what get_messages() returned
HiSendall_dropped(a) ==
    /\ ControlAt(a, "gm_send")
    /\ control' = [pc |-> "select", aid |-> a, local |-> <<>>]
    /\ UNCHANGED <<ACCOUNTS, CONNECTIONS, lock, worker, link, client_roster,
                   now, trace, sessionFrame>>

\* handle_incoming(): self.request.sendall(messages); select() is next
HiSendall(a) ==
    /\ ControlAt(a, "gm_send")
    /\ trace' = [trace EXCEPT ![a].delivered = @ \o control.local]
    /\ control' = [pc |-> "select", aid |-> a, local |-> <<>>]
    /\ UNCHANGED <<ACCOUNTS, CONNECTIONS, lock, worker, link, client_roster,
                   now, sessionFrame>>

\* select() returns, with nothing to read after 0.1 seconds or with a line
\* of the client, which handle_messages() dispatches
HandleSelect ==
    /\ control.pc = "select"
    /\ control' = Idle
    /\ \/ UNCHANGED dispVars
       \/ \E parts \in RelayLines : Dispatch(parts, "written")
    /\ UNCHANGED <<connVars, lock, worker, link, client_roster, now, trace>>

\* a step of the server thread in handle()
HandleStep ==
    \/ \E a \in DOMAIN worker : GmCall(a)
    \/ \E a \in DOMAIN worker : GmAcquire(a)
    \/ \E a \in DOMAIN worker : GmCopy(a)
    \/ \E a \in DOMAIN worker : GmFlush(a)
    \/ \E a \in DOMAIN worker : GmRelease(a)
    \/ \E a \in DOMAIN worker : HiSendall(a)
    \/ HandleSelect

\* a step of the worker's thread: of run_client() or of message()
ThreadStep(a) ==
    \/ WorkerStep(a)
    \/ MsgAcquire(a)
    \/ MsgAppendMessages(a)
    \/ MsgAppendHistory(a)
    \/ MsgRelease(a)

InitRelay == InitSession
NextRelay ==
    \/ \E a \in DOMAIN worker : ThreadStep(a)
    \/ \E a \in DOMAIN worker : NuqqlClient_session_start(a)
    \/ \E a \in DOMAIN worker, sender \in Senders : MsgEvent(a, sender, "hi")
    \/ HandleStep
SpecRelay ==
    /\ InitRelay
    /\ [][NextRelay]_vars
    /\ SF_vars(HandleStep)
    /\ \A a \in 0..(MaxAccounts - 1) : SF_vars(ThreadStep(a))

(***************************************************************************)
(* SpecStore: "account add", "account <id> delete" and "account <id> send" *)
(* with store_accounts() succeeding, failing at open() and failing after   *)
(* open(..., "w"), and with a password the ConfigParser refuses.           *)
(***************************************************************************)
StoreLines ==
    {<<"account", "add", "xmpp", "alice", "secret">>,
     <<"account", "add", "xmpp", "bob", "secret">>,
     <<"account", "add", "xmpp", "bob", "50%">>}
    \cup {<<"account", i, "delete">> : i \in {"0", "1", "2"}}
    \cup {<<"account", i, "send", "eve", "hi">> : i \in {"0", "1"}}

StoreCommand ==
    /\ \E parts \in StoreLines, io \in {"written", "unchanged", "truncated"} :
            Dispatch(parts, io)
    /\ UNCHANGED <<connVars, sessVars>>

InitStore == InitDispatch /\ InitConnection /\ NoWorkers
NextStore == StoreCommand
SpecStore == InitStore /\ [][NextStore]_vars

(***************************************************************************)
(* SpecStart: "account add" for an xmpp account step by step.  The server  *)
(* thread puts the account into the registry, stores the registry, starts  *)
(* the worker and waits for its ready Event; the worker makes the client,  *)
(* calls connect(), registers the client in CONNECTIONS, sets the Event    *)
(* and enters its loop.  Between two adds the client sends "status set"    *)
(* and "send" for the accounts of the registry.                            *)
(***************************************************************************)
StartUsers == {"alice", "bob"}

StartLines ==
    {<<"account", i, "status", "set", "away">> : i \in {"0", "1"}}
    \cup {<<"account", i, "send", "eve", "hi">> : i \in {"0", "1"}}

\* ready.wait() returns at once
Ready_at_once(w) == TRUE

\* ready.wait() returns once the worker has called ready.set()
Ready(w) == w.pc \notin {"rc_client", "rc_register", "rc_ready"}

\* handle_account_add() up to the ADD_ACCOUNT callback, and add_account() up
\* to ready.wait(): the Thread is started and kept in THREADS
AddCall(user) ==
    /\ control = Idle
    /\ ~ServerExited
    /\ Len(ACCOUNTS) < MaxAccounts
    /\ \A i \in 1..Len(ACCOUNTS) : ACCOUNTS[i].user # user
    /\ ACCOUNTS' = Append(ACCOUNTS, Account(get_account_id(ACCOUNTS), "xmpp",
                                            user, "secret"))
    /\ accounts_file' =
            store_accounts([State EXCEPT !.ACCOUNTS = ACCOUNTS'],
                           "written").accounts_file
    /\ line' = <<"account", "add", "xmpp", user, "secret">>
    /\ fired' = <<[cb |-> "ADD_ACCOUNT", aid |-> get_account_id(ACCOUNTS),
                   params |-> <<>>]>>
    /\ enqueued' = <<>>
    /\ result' = [cmd |-> "", reply |-> <<>>, exc |-> ""]
    /\ THREADS' = (get_account_id(ACCOUNTS) :> TRUE) @@ THREADS
    /\ worker' = (get_account_id(ACCOUNTS) :>
                    [RunClient(now) EXCEPT !.pc = "rc_client"]) @@ worker
    /\ control' = [pc |-> "add_wait", aid |-> get_account_id(ACCOUNTS),
                   local |-> <<>>]
    /\ UNCHANGED <<CALLBACKS, CONNECTIONS, connVars, lock, link,
                   client_roster, now, trace>>

\* run_client(): lock = Lock(); xmpp = NuqqlClient(account, lock), which sets
\* account.status to "offline"; xmpp.connect(); last_connect = time.time()
RcClient(a) ==
    /\ At(a, "rc_client")
    /\ ACCOUNTS' = SetAccount(State, a, "status", "offline").ACCOUNTS
    /\ lock' = (a :> "free") @@ lock
    /\ link' = (a :> "connecting") @@ link
    /\ client_roster' = (a :> <<>>) @@ client_roster
    /\ trace' = (a :> NewTrace(now)) @@ trace
    /\ worker' = [worker EXCEPT ![a].pc = "rc_register",
                                ![a].last_connect = now]
    /\ UNCHANGED <<CONNECTIONS, control, now, sessionFrame>>

\* CONNECTIONS[account.aid] = xmpp
RcRegister(a) ==
    /\ At(a, "rc_register")
    /\ CONNECTIONS' = (a :> NewClient) @@ CONNECTIONS
    /\ Goto(a, "rc_ready")
    /\ UNCHANGED <<ACCOUNTS, lock, control, link, client_roster, now, trace,
                   sessionFrame>>

\* ready.set()
RcReady(a) ==
    /\ At(a, "rc_ready")
    /\ Goto(a, "loop")
    /\ UNCHANGED <<ACCOUNTS, CONNECTIONS, lock, control, link, client_roster,
                   now, trace, sessionFrame>>

\* ready.wait() returns; add_account() and handle_account_add() return
AddReturn(a) ==
    /\ ControlAt(a, "add_wait")
    /\ Ready(worker[a])
    /\ result' = [cmd |-> "msg", reply |-> Format_INFO("new account added."),
                  exc |-> ""]
    /\ control' = Idle
    /\ UNCHANGED <<ACCOUNTS, CALLBACKS, accounts_file, CONNECTIONS, THREADS,
                   line, fired, enqueued, connVars, lock, worker, link,
                   client_roster, now, trace>>

\* the next line of the client, handled by the server thread
StartCommand ==
    /\ control = Idle
    /\ \A a \in DOMAIN lock : lock[a] = "free"
    /\ \E parts \in StartLines : Dispatch(parts, "written")
    /\ UNCHANGED <<connVars, sessVars>>

InitStart == InitDispatch /\ InitConnection /\ NoWorkers
NextStart ==
    \/ \E user \in StartUsers : AddCall(user)
    \/ \E a \in DOMAIN worker : RcClient(a)
    \/ \E a \in DOMAIN worker : RcRegister(a)
    \/ \E a \in DOMAIN worker : RcReady(a)
    \/ \E a \in DOMAIN worker : AddReturn(a)
    \/ StartCommand
    \/ WorkerLoop
    \/ \E a \in DOMAIN worker : NuqqlClient_session_start(a)
SpecStart == InitStart /\ [][NextStart]_vars

(***************************************************************************)
(* SpecReconnect: the worker of a session that starts offline, goes online *)
(* and offline and connects again as time passes, while the server thread  *)
(* enqueues commands for it.                                               *)
(***************************************************************************)
InitReconnect == InitSession
NextReconnect ==
    \/ WorkerLoop
    \/ \E a \in DOMAIN worker : NuqqlClient_session_start(a)
    \/ \E a \in DOMAIN worker : NuqqlClient_disconnected(a)
    \/ Enqueuing
    \/ Wait
SpecReconnect == InitReconnect /\ [][NextReconnect]_vars

(***************************************************************************)
(* SpecPresence: the worker of a session that goes online and offline and  *)
(* connects again as time passes, while the server thread enqueues         *)
(* "status set" with two statuses and a message.                           *)
(***************************************************************************)
PresenceCommands ==
    {[cmd |-> "SET_STATUS", params |-> <<"away">>],
     [cmd |-> "SET_STATUS", params |-> <<"dnd">>],
     [cmd |-> "GET_STATUS", params |-> <<>>]}

InitPresence == InitSession
NextPresence ==
    \/ WorkerLoop
    \/ \E a \in DOMAIN worker : NuqqlClient_session_start(a)
    \/ \E a \in DOMAIN worker : NuqqlClient_disconnected(a)
    \/ \E a \in DOMAIN worker, command \in PresenceCommands : EnqCall(a, command)
    \/ \E a \in DOMAIN worker : EnqAcquire(a)
    \/ \E a \in DOMAIN worker : EnqAppend(a)
    \/ \E a \in DOMAIN worker : EnqRelease(a)
    \/ Wait
SpecPresence == InitPresence /\ [][NextPresence]_vars

(***************************************************************************)
(* SpecStop: the worker of a session, the server thread enqueuing commands *)
(* for it, and the two ways the client has the running Event of the worker *)
(* cleared: "quit", after which main() joins the worker and the process    *)
(* ends, and "account <id> delete", which joins the worker itself.         *)
(***************************************************************************)
InitStop == InitSession
NextStop ==
    \/ WorkerLoop
    \/ \E a \in DOMAIN worker : NuqqlClient_session_start(a)
    \/ \E a \in DOMAIN worker : NuqqlClient_disconnected(a)
    \/ Enqueuing
    \/ Deleting
    \/ Quit
    \/ JoinThread
    \/ SysExit
SpecStop == InitStop /\ [][NextStop]_vars

(***************************************************************************)
(* SpecConnections: the server of run_inet_server() / run_unix_server(), a *)
(* socketserver.TCPServer / UnixStreamServer, and its clients.  A client   *)
(* that connects waits in the listen queue; serve_forever() accepts the    *)
(* next one and runs a new NuqqlBaseHandler for it in the same thread,     *)
(* when the handle() of the previous one has returned.                     *)
(***************************************************************************)
Clients == 1..MaxClients

\* what a client sends in one piece: an unknown verb, "bye" and "quit" as
\* whole frames, "bye" without its delimiter, a delimiter
ClientReads ==
    {<<<<"st">>, CR, LF>>, <<<<"bye">>, CR, LF>>, <<<<"quit">>, CR, LF>>,
     <<<<"bye">>>>, <<CR, LF>>}

\* serve_forever() takes the next request when no handler is running, and a
\* server that runs every handler in a thread of its own
CanAccept_threading(handler) == TRUE

CanAccept(handler) == handler = "closed"

\* the clients that have connected
Connected ==
    {server.backlog[i] : i \in 1..Len(server.backlog)}
        \cup {server.client} \cup server.closed

\* a client connects: the connection waits in the listen queue
Connect(c) ==
    /\ c \notin Connected
    /\ server' = [server EXCEPT !.backlog = Append(@, c)]
    /\ UNCHANGED <<dispVars, conn, buffer, received, dispatched, sent,
                   loop_cmd, sessVars>>

\* serve_forever(): accept the next connection and run handle() of a new
\* NuqqlBaseHandler, whose buffer is empty
Accept ==
    /\ CanAccept(conn)
    /\ server.backlog # <<>>
    /\ server' = [backlog |-> Tail(server.backlog),
                  client |-> Head(server.backlog),
                  closed |-> server.closed \cup {server.client}]
    /\ conn' = "open"
    /\ buffer' = <<>>
    /\ received' = <<>>
    /\ dispatched' = <<>>
    /\ sent' = <<>>
    /\ loop_cmd' = <<>>
    /\ UNCHANGED <<dispVars, sessVars>>

\* one round of the loop of handle() for the client of the handler
Serve == \E data \in ClientReads \cup {<<>>} : HandleLoop(data)

InitConnections ==
    /\ \E n \in 0..Len(EarlierLines) :
            StartedWith(RunLines(Boot, SubSeq(EarlierLines, 1, n)))
    /\ InitConnection
    /\ SessionsStarted

NextConnections ==
    \/ \E c \in Clients : Connect(c)
    \/ Accept
    \/ Serve
    \/ SocketError
SpecConnections == InitConnections /\ [][NextConnections]_vars

(***************************************************************************)
(* SpecSend: "account <id> send <user> <msg...>" with no, one and more     *)
(* tokens of message, to two users over two accounts, with "account <id>   *)
(* buddies" in between.  The write of the accounts file succeeds or fails  *)
(* after open(..., "w").                                                   *)
(***************************************************************************)
SendUsers == {"bob", "eve"}
SendBodies == {<<>>, <<"hi">>, <<"hi", "there">>, <<"hi", "", "there">>}

SendLines ==
    {<<"account", i, "send", u>> \o body :
        i \in {"0", "1", "2"}, u \in SendUsers, body \in SendBodies}

SendCommand ==
    /\ \E parts \in SendLines, io \in {"written", "truncated"} :
            Dispatch(parts, io)
    /\ UNCHANGED <<connVars, sessVars>>

RosterCommand ==
    /\ \E i \in {"0", "1"} : Dispatch(<<"account", i, "buddies">>, "written")
    /\ UNCHANGED <<connVars, sessVars>>

InitSend ==
    /\ StartedWith(RunLines(Boot, EarlierLines))
    /\ InitConnection
    /\ NoWorkers
NextSend == SendCommand \/ RosterCommand
SpecSend == InitSend /\ [][NextSend]_vars

(***************************************************************************)
(* SpecCallbacks: the callback table under register_callback() and         *)
(* unregister_callback(), and the dispatcher calling into it.  At most     *)
(* MaxUnregistered of the tags main() registers are missing at a time.     *)
(***************************************************************************)
CallbackLines ==
    {<<"account", "0", "send", "bob", "hi">>, <<"account", "0", "chat", "list">>,
     <<"account", "0", "status", "get">>, <<"account", "0", "collect">>,
     <<"account", "0", "buddies">>, <<"account", "0", "delete">>,
     <<"account", "add", "xmpp", "alice", "secret">>, <<"bye">>}

\* the tags of BackendCallbacks the table lacks
Unregistered(callbacks) == DOMAIN BackendCallbacks \ DOMAIN callbacks

RegisterCallback ==
    /\ \E cb_name \in Unregistered(CALLBACKS) :
            CALLBACKS' = register_callback(State, cb_name,
                                           BackendCallbacks[cb_name]).CALLBACKS
    /\ UNCHANGED <<ACCOUNTS, accounts_file, CONNECTIONS, THREADS, line, result,
                   fired, enqueued, connVars, sessVars>>

UnregisterCallback ==
    /\ \E cb_name \in Callback :
            /\ CALLBACKS' = unregister_callback(State, cb_name).CALLBACKS
            /\ Cardinality(Unregistered(CALLBACKS')) <= MaxUnregistered
    /\ UNCHANGED <<ACCOUNTS, accounts_file, CONNECTIONS, THREADS, line, result,
                   fired, enqueued, connVars, sessVars>>

CallbackCommand ==
    /\ \E parts \in CallbackLines : Dispatch(parts, "written")
    /\ UNCHANGED <<connVars, sessVars>>

InitCallbacks ==
    /\ StartedWith(RunLines(Boot, EarlierLines))
    /\ InitConnection
    /\ NoWorkers
NextCallbacks == RegisterCallback \/ UnregisterCallback \/ CallbackCommand
SpecCallbacks == InitCallbacks /\ [][NextCallbacks]_vars

(***************************************************************************)
(* SpecChat: "account <id> chat ..." with every sub-verb, with none, some  *)
(* and all of its tokens and with tokens to spare, for accounts with and   *)
(* without session and for ids that are not in the registry.               *)
(***************************************************************************)
ChatTails ==
    {<<>>, <<"list">>, <<"list", "room">>,
     <<"join">>, <<"join", "room">>, <<"join", "room", "more">>,
     <<"part">>, <<"part", "room">>,
     <<"users">>, <<"users", "room">>,
     <<"send">>, <<"send", "room">>, <<"send", "room", "hi">>,
     <<"send", "room", "hi", "there">>,
     <<"invite">>, <<"invite", "room">>, <<"invite", "room", "bob">>,
     <<"invite", "room", "bob", "more">>,
     <<"frobnicate">>, <<"frobnicate", "room", "bob">>}

ChatLines == {<<"account", i, "chat">> \o tail : i \in IdTokens, tail \in ChatTails}

ChatCommand ==
    /\ \E parts \in ChatLines : Dispatch(parts, "written")
    /\ UNCHANGED <<connVars, sessVars>>

InitChat ==
    /\ \E n \in 0..Len(EarlierLines) :
            StartedWith(RunLines(Boot, SubSeq(EarlierLines, 1, n)))
    /\ InitConnection
    /\ NoWorkers
NextChat == ChatCommand
SpecChat == InitChat /\ [][NextChat]_vars

(***************************************************************************)
(* SpecBuddies: the worker of a session refreshing the roster snapshot and *)
(* the client asking for the buddies of the account.  The server thread    *)
(* handles a line while the Lock of the session is free; the               *)
(* UPDATE_BUDDIES callback copies the snapshot within the step.            *)
(***************************************************************************)
BuddiesLines ==
    {<<"account", "0", "buddies">>, <<"account", "0", "buddies", "online">>,
     <<"account", "0", "buddies", "ONLINE">>,
     <<"account", "0", "buddies", "offline">>}

BuddiesCommand ==
    /\ control = Idle
    /\ \A a \in DOMAIN lock : lock[a] = "free"
    /\ \E parts \in BuddiesLines : Dispatch(parts, "written")
    /\ UNCHANGED <<connVars, sessVars>>

InitBuddies == InitSession
NextBuddies ==
    \/ WorkerLoop
    \/ \E a \in DOMAIN worker : NuqqlClient_session_start(a)
    \/ \E a \in DOMAIN worker : NuqqlClient_disconnected(a)
    \/ \E a \in DOMAIN worker, roster \in Rosters : RosterPush(a, roster)
    \/ BuddiesCommand
SpecBuddies == InitBuddies /\ [][NextBuddies]_vars

(***************************************************************************)
(* The claims.                                                             *)
(***************************************************************************)
\* the smallest non-negative integer that is not in S
MinFree(S) ==
    CHOOSE n \in 0..Cardinality(S) :
        n \notin S /\ \A m \in 0..(n - 1) : m \in S

\* the last line was an "account add" that added an account
AddSucceeded ==
    result.exc = "" /\ result.reply = Format_INFO("new account added.")

\* C1: for the ids S of the registry the allocator returns the smallest
\* non-negative integer not in S; no two accounts of the registry share an
\* id; and the account an "account add" has just added holds the lowest id
\* that was free before it, whatever adds and deletes came before.
C1_LowestFreeId ==
    /\ get_account_id(ACCOUNTS) = MinFree(AccountIds(ACCOUNTS))
    /\ Cardinality(AccountIds(ACCOUNTS)) = Len(ACCOUNTS)
    /\ AddSucceeded =>
            ACCOUNTS[Len(ACCOUNTS)].aid =
                MinFree(AccountIds(ACCOUNTS) \ {ACCOUNTS[Len(ACCOUNTS)].aid})

\* C1 witness: ids 0, 1, 2 were given, 1 was deleted, and the next add
\* received 1 again (the account added last holds id 1)
C1_Witness ==
    /\ AddSucceeded
    /\ Len(ACCOUNTS) = 3
    /\ ACCOUNTS[1].aid = 0 /\ ACCOUNTS[2].aid = 2 /\ ACCOUNTS[3].aid = 1

\* the reply is one or more frames and the first one is an "error:" frame
StartsWithError(reply) == reply # <<>> /\ reply[1].prefix = "error"

\* the verbs handle_msg() and handle_account() know
TopVerbs == {"account", "bye", "quit", "help"}
SubCommands ==
    {"list", "add", "delete", "buddies", "collect", "send", "status", "chat"}

\* the top-level verb of the line is unknown
UnknownVerb(parts) == parts[1] \notin TopVerbs

\* an account line whose id is not a number or not an id of the registry
BadId(parts, accounts) ==
    /\ Len(parts) >= 2 /\ parts[1] = "account"
    /\ parts[2] \notin {"list", "add"}
    /\ \/ ~IsInt(parts[2])
       \/ ParseInt(parts[2]) \notin AccountIds(accounts)

\* an account line with an id of the registry and an unknown sub-command
UnknownSubCommand(parts, accounts) ==
    /\ Len(parts) >= 3 /\ parts[1] = "account"
    /\ IsInt(parts[2]) /\ ParseInt(parts[2]) \in AccountIds(accounts)
    /\ parts[3] \notin SubCommands

\* the step handled a line and changed nothing but the record of the line
\* and of what handle_msg() returned for it: registry, accounts file,
\* sessions, workers and queues as before, no callback called
NoOpStep ==
    /\ UNCHANGED <<ACCOUNTS, CALLBACKS, accounts_file, CONNECTIONS, THREADS>>
    /\ fired' = <<>>
    /\ enqueued' = <<>>

\* C9: for every line, the dispatcher hands back a (cmd, reply) value and no
\* exception escapes it, and the server exits after no line but "quit".
C9_NoExceptionEscapes ==
    /\ result.exc = ""
    /\ ServerExited => line = <<"quit">>

\* C9 witness: "account 0 send" with account 0 in the registry and no user
\* token: handle_account_send() reads params[0] of an empty list
C9_Witness ==
    /\ line = <<"account", "0", "send">>
    /\ 0 \in AccountIds(ACCOUNTS)
    /\ result.exc = "IndexError"

RECURSIVE FramesOf(_, _)
FramesOf(bytes, cur) ==
    IF bytes = <<>> THEN <<>>
    ELSE IF Len(bytes) >= 2 /\ bytes[1] = CR /\ bytes[2] = LF
    THEN <<cur>> \o FramesOf(Tail(Tail(bytes)), <<>>)
    ELSE FramesOf(Tail(bytes), Append(cur, Head(bytes)))

\* the incomplete frame at the end of a byte sequence
RECURSIVE TailOf(_, _)
TailOf(bytes, cur) ==
    IF bytes = <<>> THEN cur
    ELSE IF Len(bytes) >= 2 /\ bytes[1] = CR /\ bytes[2] = LF
    THEN TailOf(Tail(Tail(bytes)), <<>>)
    ELSE TailOf(Tail(bytes), Append(cur, Head(bytes)))

\* the commands a sequence of frames asks for: the frames that decode, up to
\* the first "bye" or "quit"
RECURSIVE CommandsOf(_)
CommandsOf(frames) ==
    IF frames = <<>> THEN <<>>
    ELSE IF ~Decodable(Head(frames)) THEN CommandsOf(Tail(frames))
    ELSE IF Split(Head(frames))[1] \in {"bye", "quit"}
    THEN <<Split(Head(frames))>>
    ELSE <<Split(Head(frames))>> \o CommandsOf(Tail(frames))

\* the payloads the replies to a sequence of commands make: the lines of the
\* model leave the registry as it is, so that the reply to a command is the
\* reply handle_msg() gives in the current state
RECURSIVE RepliesTo(_)
RepliesTo(commands) ==
    IF commands = <<>> THEN <<>>
    ELSE (IF /\ handle_msg(State, Head(commands), "written").cmd = "msg"
             /\ handle_msg(State, Head(commands), "written").reply # <<>>
          THEN <<[reply |->
                    handle_msg(State, Head(commands), "written").reply]>>
          ELSE <<>>)
         \o RepliesTo(Tail(commands))

\* the handler has stopped handling messages: "bye", "quit" or an exception
HandlerStopped == loop_cmd \in {<<"bye">>, <<"quit">>} \/ result.exc # ""

\* what was dispatched, and what of the buffer still is to be dispatched, are
\* the commands of the bytes received, whatever the reads were; the
\* incomplete frame at the end of the bytes received is in the buffer and was
\* not dispatched; complete frames wait in the buffer only behind a frame
\* that did not decode
DispatchedByBytes ==
    /\ HandlerStopped =>
            dispatched = CommandsOf(FramesOf(received, <<>>))
    /\ ~HandlerStopped =>
            /\ dispatched \o CommandsOf(FramesOf(buffer, <<>>))
                    = CommandsOf(FramesOf(received, <<>>))
            /\ TailOf(buffer, <<>>) = TailOf(received, <<>>)
            /\ loop_cmd = <<>> => FramesOf(buffer, <<>>) = <<>>

\* C7 as stated: the commands dispatched are those of the bytes received,
\* whatever the reads were, and "account list", received in parts, is
\* dispatched once and answered with exactly one reply frame.
C7_OneReplyFramePerCommand ==
    /\ DispatchedByBytes
    /\ dispatched = <<<<"account", "list">>>> =>
            Len(sent) = 1 /\ Len(sent[1].reply) = 1

\* C7: the commands dispatched are those of the bytes received, whatever the
\* reads were: a command is dispatched once, when its delimiter is in, an
\* incomplete frame is never dispatched, and every command answered with a
\* non-empty reply has that reply sent once, as one payload of as many frames
\* as the reply has ("account list": one per account, nothing sent for the
\* empty registry).
C7_DispatchIndependentOfReads ==
    /\ DispatchedByBytes
    /\ result.exc = "" => sent = RepliesTo(dispatched)

\* C7 witness: "account list", CR, LF came in two reads or more (four groups,
\* a read holds three at most), were dispatched once and answered with one
\* payload of two frames, one for each account of the registry
C7_Witness ==
    /\ received = <<<<"account", "li">>, <<"st">>, CR, LF>>
    /\ dispatched = <<<<"account", "list">>>>
    /\ buffer = <<>>
    /\ Len(ACCOUNTS) = 2
    /\ Len(sent) = 1 /\ Len(sent[1].reply) = 2

\* C8: when handle_messages() has found a complete frame that does not decode,
\* the handler's loop ends and the connection is closed, and the process
\* keeps running.
C8_UndecodableFrameEndsConnection ==
    loop_cmd = <<"bye", "UnicodeDecodeError">> => conn = "closed"

\* C8 witness: the first frame of the connection did not decode, the
\* connection is open and a later frame of it was dispatched
C8_Witness ==
    /\ Len(received) >= 3
    /\ received[1] = BadByte /\ received[2] = CR /\ received[3] = LF
    /\ conn = "open"
    /\ dispatched # <<>>

\* the commands the worker has copied from the queue and not executed yet:
\* its copy, once the queue is flushed
InHand(a) ==
    IF worker[a].pc \in {"hq_release", "hq_run"} THEN worker[a].queue
    ELSE <<>>

\* the command enqueue_command() was called with and has not appended yet
Appending(a) ==
    IF control.pc \in {"enq_acquire", "enq_append"} /\ control.aid = a
    THEN control.local ELSE <<>>

\* C2: at every point of every interleaving of enqueue_command() calls with
\* the worker's handle_queue(), the commands executed, those the worker has in
\* hand, those in the queue and the one being appended are, in this order,
\* the commands submitted: no command is lost, none is executed twice, and
\* they are executed in the order of submission; with the queue drained the
\* N commands submitted are the N commands executed.
C2_ExecutedOnceInOrder ==
    \A a \in DOMAIN worker :
        trace[a].executed \o InHand(a) \o CONNECTIONS[a].queue
                \o Appending(a)
            = trace[a].submitted

\* C2 witness: three commands were submitted, the first two different, and
\* the worker, in the loop of handle_queue(), has executed the three
C2_Witness ==
    \E a \in DOMAIN worker :
        /\ Len(trace[a].submitted) = 3
        /\ trace[a].executed = trace[a].submitted
        /\ trace[a].submitted[1] # trace[a].submitted[2]
        /\ worker[a].pc = "hq_run"

\* the messages get_messages() has copied and handle_incoming() has not sent
\* yet: its copy, once the message list is flushed
InFlight(a) ==
    IF control.pc \in {"gm_release", "gm_send"} /\ control.aid = a
    THEN control.local ELSE <<>>

\* C3: at every point of every interleaving of the message handler's appends
\* with get_messages(), the messages sent to the client, those the drain has
\* copied and those in the message list are, in this order, the messages that
\* arrived: none is lost, none is sent twice, and they are sent in the order
\* of arrival.
C3_DeliveredOnceInOrder ==
    \A a \in DOMAIN worker :
        trace[a].delivered \o InFlight(a) \o CONNECTIONS[a].messages
            = trace[a].arrived

\* C3 witness: three messages arrived, the first two different, and were
\* sent to the client; a further get_messages() has copied an empty list
C3_Witness ==
    \E a \in DOMAIN worker :
        /\ Len(trace[a].arrived) = 3
        /\ trace[a].delivered = trace[a].arrived
        /\ trace[a].arrived[1] # trace[a].arrived[2]
        /\ control.pc = "gm_release" /\ Len(control.local) = 0

\* C4: when the update_buddies() callback has copied the roster snapshot, the
\* account's buddy list is a complete snapshot: the one self.buddies held
\* when the copy began, or the one it holds now (a disconnect flushed it
\* meanwhile), never a part of one and never a mix.
C4_CopyIsCompleteSnapshot ==
    \A a \in DOMAIN worker :
        ControlAt(a, "ubc_release") =>
            ACCOUNTS[AccountIndex(ACCOUNTS, a)].buddies
                \in {trace[a].snap_old, trace[a].complete}

\* C4 witness: the copy of a snapshot of three buddies is done while a
\* disconnect has flushed self.buddies and the roster has changed since
C4_Witness ==
    \E a \in DOMAIN worker :
        /\ ControlAt(a, "ubc_release")
        /\ Len(ACCOUNTS[AccountIndex(ACCOUNTS, a)].buddies) = 3
        /\ CONNECTIONS[a].buddies = <<>>
        /\ link[a] = "down"

\* C5: any two consecutive connect() calls of a session, the one of the
\* worker's start and those of the disconnect handler included, are
\* ReconnectInterval seconds apart or more.
C5_AttemptsIntervalApart ==
    \A a \in DOMAIN worker :
        Len(trace[a].attempts) = 2 =>
            trace[a].attempts[2] - trace[a].attempts[1] >= ReconnectInterval

\* C5 witness: the disconnect handler connected at second 3, the session did
\* not start, and _reconnect() connected again at second 10, ten seconds
\* after the connect of the worker's start
C5_Witness ==
    \E a \in DOMAIN worker :
        /\ trace[a].attempts = <<3, 10>>
        /\ worker[a].last_connect = 10
        /\ link[a] = "connecting"

\* threads whose run_client() has not returned
Alive == {a \in DOMAIN worker : worker[a].pc # "exited"}

DeleteOfMissing(parts, accounts) ==
    /\ Len(parts) = 3 /\ parts[1] = "account" /\ parts[3] = "delete"
    /\ IsInt(parts[2])
    /\ ParseInt(parts[2]) \notin AccountIds(accounts)

\* C11: "account <id> delete" for an id that is not in the registry returns
\* the reply "error: invalid account", leaves the registry and the accounts
\* file as they were, and calls no callback (no DEL_ACCOUNT).
C11_DeleteOfMissingIdIsRejected ==
    [][DeleteOfMissing(line', ACCOUNTS) =>
            /\ result'.exc = ""
            /\ result'.cmd = "msg"
            /\ result'.reply = Format_ERROR("invalid account")
            /\ NoOpStep]_vars

\* C11 witness: "account 0 delete" was answered with "error: invalid account"
\* while the registry holds account 1 only (0 was deleted before)
C11_Witness ==
    /\ line = <<"account", "0", "delete">>
    /\ AccountIds(ACCOUNTS) = {1}
    /\ result.reply = Format_ERROR("invalid account")
    /\ fired = <<>>

\* the line is an "account add" with type, user and password, and accounts
\* holds an account of this type and user
AddOfExisting(parts, accounts) ==
    /\ Len(parts) >= 5 /\ parts[1] = "account" /\ parts[2] = "add"
    /\ \E i \in 1..Len(accounts) :
            accounts[i].type = parts[3] /\ accounts[i].user = parts[4]

\* no two accounts have the same type and user
UniqueTypeUser(accounts) ==
    \A i, j \in 1..Len(accounts) :
        (accounts[i].type = accounts[j].type
            /\ accounts[i].user = accounts[j].user) => i = j

\* C12: "account add <type> <user> <password>" for a type and user the
\* registry holds is answered with the "info:" reply "account already
\* exists.", not with an error; registry and accounts file stay as they were
\* (so the next free id is the same) and no callback is called; and no two
\* accounts of the registry share type and user.
C12_DuplicateAddIsRejected ==
    [][/\ AddOfExisting(line', ACCOUNTS) =>
            /\ result'.exc = ""
            /\ result'.cmd = "msg"
            /\ result'.reply = Format_INFO("account already exists.")
            /\ get_account_id(ACCOUNTS') = get_account_id(ACCOUNTS)
            /\ NoOpStep
       /\ UniqueTypeUser(ACCOUNTS')]_vars

\* C12 witness: "account add xmpp alice secret" was answered with "account
\* already exists." while the registry holds alice's xmpp account and another
\* account, with id 1 free between them
C12_Witness ==
    /\ line = <<"account", "add", "xmpp", "alice", "secret">>
    /\ result.reply = Format_INFO("account already exists.")
    /\ AccountIds(ACCOUNTS) = {0, 2}
    /\ \E i \in 1..Len(ACCOUNTS) :
            ACCOUNTS[i].type = "xmpp" /\ ACCOUNTS[i].user = "alice"
    /\ fired = <<>>

\* the line is an "account add" with n parameters
AddWith(parts, n) ==
    Len(parts) = n + 2 /\ parts[1] = "account" /\ parts[2] = "add"

\* the step added the account of type, user and password under the id that
\* was free, stored it and called ADD_ACCOUNT for it
AddedStep(type, user, password) ==
    /\ Len(ACCOUNTS') = Len(ACCOUNTS) + 1
    /\ SubSeq(ACCOUNTS', 1, Len(ACCOUNTS)) = ACCOUNTS
    /\ AccountRecord(ACCOUNTS'[Len(ACCOUNTS')]) =
            [id |-> get_account_id(ACCOUNTS), type |-> type, user |-> user,
             password |-> password]
    /\ AccountRecord(ACCOUNTS'[Len(ACCOUNTS')]) \in accounts_file'
    /\ fired' = <<[cb |-> "ADD_ACCOUNT", aid |-> get_account_id(ACCOUNTS),
                   params |-> <<>>]>>

\* C13 as stated: an "account add" line with fewer or with more than three
\* parameters creates no account, stores nothing and calls no callback.
C13_AddNeedsExactlyThreeParameters ==
    [][(\E n \in {0, 1, 2, 4} : AddWith(line', n)) => NoOpStep]_vars

\* C13: an "account add" line with fewer than three parameters gets the empty
\* reply and creates no account, stores nothing and calls no callback; a
\* line with more than three is handled as the line of its first three: the
\* account is added unless the registry holds its type and user.
C13_AddNeedsAtLeastThreeParameters ==
    [][/\ (\E n \in {0, 1, 2} : AddWith(line', n)) =>
            /\ result'.exc = "" /\ result'.reply = <<>>
            /\ NoOpStep
       /\ (AddWith(line', 4) /\ ~AddOfExisting(line', ACCOUNTS)) =>
            /\ result'.reply = Format_INFO("new account added.")
            /\ AddedStep(line'[3], line'[4], line'[5])]_vars

\* C13 witness: "account add icq bob secret more" added bob's icq account to
\* a registry that held one account
C13_Witness ==
    /\ line = <<"account", "add", "icq", "bob", "secret", "more">>
    /\ result.reply = Format_INFO("new account added.")
    /\ Len(ACCOUNTS) = 2
    /\ ACCOUNTS[2].type = "icq" /\ ACCOUNTS[2].user = "bob"
    /\ ACCOUNTS[2].password = "secret"

\* the "buddy:" lines of the buddies of the list whose status is in statuses
RECURSIVE LinesOf(_, _, _)
LinesOf(acc_id, buddies, statuses) ==
    IF buddies = <<>> THEN <<>>
    ELSE (IF Head(buddies).status \in statuses
          THEN Format_BUDDY(acc_id, Head(buddies).status, Head(buddies).name,
                            Head(buddies).alias)
          ELSE <<>>)
         \o LinesOf(acc_id, Tail(buddies), statuses)

\* the statuses of the buddies of a list
StatusesOf(buddies) == {buddies[i].status : i \in 1..Len(buddies)}

\* the line asks for the buddies of account 0, for the online ones or for all
BuddiesAsked(parts, online) ==
    /\ Len(parts) >= 3
    /\ SubSeq(parts, 1, 3) = <<"account", "0", "buddies">>
    /\ online <=> (Len(parts) >= 4 /\ Lower(parts[4]) = "online")

\* C14 as stated: "account 0 buddies online" is answered with the "buddy:"
\* lines of exactly the buddies of the account's snapshot whose status is
\* "available", and "account 0 buddies" with the lines of all of them.
C14_OnlineListsAvailableBuddies ==
    /\ BuddiesAsked(line, TRUE) =>
            result.reply = LinesOf(0, ACCOUNTS[AccountIndex(ACCOUNTS, 0)].buddies,
                                   {"available"})
    /\ BuddiesAsked(line, FALSE) =>
            result.reply = LinesOf(0, ACCOUNTS[AccountIndex(ACCOUNTS, 0)].buddies,
                                   StatusesOf(
                                     ACCOUNTS[AccountIndex(ACCOUNTS, 0)].buddies))

\* C14 witness: the snapshot copied for "account 0 buddies online" holds a
\* buddy of status "available" and one of status "offline", and the reply
\* holds no line
C14_Witness ==
    /\ line = <<"account", "0", "buddies", "online">>
    /\ Len(ACCOUNTS[AccountIndex(ACCOUNTS, 0)].buddies) = 2
    /\ StatusesOf(ACCOUNTS[AccountIndex(ACCOUNTS, 0)].buddies)
            = {"available", "offline"}
    /\ result.exc = ""
    /\ result.reply = <<>>

\* parameters the dispatcher calls a callback with
ParamsOf(cb_name) ==
    CASE cb_name \in {"SEND_MESSAGE", "CHAT_SEND", "CHAT_INVITE"}
            -> <<"bob", "hi">>
      [] cb_name \in {"SET_STATUS", "CHAT_JOIN", "CHAT_PART", "CHAT_USERS"}
            -> <<"room">>
      [] OTHER -> <<>>

\* the accounts of the registry that have no session
WithoutSession ==
    {a \in AccountIds(ACCOUNTS) : a \notin DOMAIN CONNECTIONS \cup DOMAIN THREADS}

\* C15 as stated: every callback the backend registers, but the one that
\* starts a session, called for an account without session returns the empty
\* text, raises nothing and leaves the state as it is.
C15_NoSessionIsSilentNoOp ==
    \A a \in WithoutSession :
        \A cb_name \in DOMAIN CALLBACKS \ {"ADD_ACCOUNT"} :
            Call(State, a, cb_name, ParamsOf(cb_name)) = Return(State, <<>>)

\* C15 witness: "account 0 delete" for the icq account 0, which has no
\* session: the account left the registry and the file, and the KeyError of
\* del_account() escaped the dispatcher
C15_Witness ==
    /\ line = <<"account", "0", "delete">>
    /\ result.exc = "KeyError"
    /\ fired = <<[cb |-> "DEL_ACCOUNT", aid |-> 0, params |-> <<>>]>>
    /\ 0 \notin AccountIds(ACCOUNTS)
    /\ 0 \notin DOMAIN THREADS

\* the DISCONNECT calls of "bye": one for every account, in registry order
DisconnectCalls(accounts) ==
    [i \in 1..Len(accounts) |->
        [cb |-> "DISCONNECT", aid |-> accounts[i].aid, params |-> <<>>]]

\* the step is the round of handle() in which the client's "bye" was handled
ByeStep == conn = "open" /\ line' = <<"bye">> /\ dispatched' # dispatched

\* C16: "bye" calls the DISCONNECT callback once for every account of the
\* registry and makes handle() return, which drops this client's connection
\* only: the server does not exit, registry, accounts file, sessions and
\* workers are as before, and serve_forever() accepts the next client that
\* has connected.
C16_ByeDropsOnlyTheConnection ==
    /\ [][ByeStep =>
            /\ fired' = DisconnectCalls(ACCOUNTS)
            /\ result' = [cmd |-> "bye", reply |-> Goodbye, exc |-> ""]
            /\ loop_cmd' = <<"bye">>
            /\ conn' = "closed"
            /\ UNCHANGED <<ACCOUNTS, CALLBACKS, accounts_file, CONNECTIONS,
                           THREADS, sessVars>>]_vars
    /\ [](conn = "closed" /\ server.backlog # <<>> => ENABLED Accept)

\* C16 witness: the first client said "bye" with two accounts in the
\* registry, DISCONNECT was called for both, and the server has accepted the
\* second client
C16_Witness ==
    /\ line = <<"bye">>
    /\ fired = DisconnectCalls(ACCOUNTS)
    /\ Len(ACCOUNTS) = 2
    /\ server.client = 2 /\ server.closed = {1}
    /\ conn = "open"
    /\ 0 \in DOMAIN THREADS /\ THREADS[0]

\* the clients waiting in the listen queue
Waiting == {server.backlog[i] : i \in 1..Len(server.backlog)}

\* C17: at most one client is served at a time.  The handler belongs to one
\* client, which is not among the waiting ones; bytes are read, commands
\* dispatched and replies sent only in the running handler of that client;
\* and the server turns to another client only when the handle() of the
\* previous one has returned: it takes the client that waited longest and
\* starts with nothing read and nothing dispatched.
C17_OneClientAtATime ==
    /\ [](server.client \notin Waiting \cup server.closed)
    /\ [][/\ server'.client = server.client =>
                (<<received, dispatched, sent>>' # <<received, dispatched, sent>>
                    => conn = "open")
          /\ server'.client # server.client =>
                /\ conn = "closed" /\ conn' = "open"
                /\ server'.client = Head(server.backlog)
                /\ received' = <<>> /\ dispatched' = <<>> /\ sent' = <<>>
                /\ buffer' = <<>>]_vars

\* C17 witness: the second client is served, after the handler of the first
\* has returned, and has had a command dispatched while the third client
\* waits
C17_Witness ==
    /\ server.client = 2
    /\ server.closed = {1}
    /\ server.backlog = <<3>>
    /\ conn = "open"
    /\ dispatched = <<<<"st">>>>

\* the names of the buddies of an account
BuddyNames(acc) == {acc.buddies[j].name : j \in 1..Len(acc.buddies)}

\* the line is "account <id> send <user> <msg...>" for the account at index i
SendOver(parts, accounts, i) ==
    /\ Len(parts) >= 4 /\ parts[1] = "account" /\ parts[3] = "send"
    /\ IsInt(parts[2])
    /\ accounts[i].aid = ParseInt(parts[2])

\* the accounts file holds the registry, or nothing after a failed write
Persisted(accounts, file) ==
    \/ file = {AccountRecord(accounts[i]) : i \in 1..Len(accounts)}
    \/ file = {}

\* C18: "account <id> send <user> <msg...>" calls SEND_MESSAGE exactly once,
\* with the user and the tokens after the user joined by single spaces, and
\* no other callback.  If the account knows a buddy of that name, registry
\* and accounts file stay as they are; otherwise the buddy <user> with the
\* empty alias is appended to the buddies of the account and the accounts
\* file is written.  No account ever holds two buddies of the same name.
C18_SendCallsOnceAndAddsUnknownBuddy ==
    /\ [](\A i \in 1..Len(ACCOUNTS) :
            Cardinality(BuddyNames(ACCOUNTS[i])) = Len(ACCOUNTS[i].buddies))
    /\ [][\A i \in 1..Len(ACCOUNTS) :
            SendOver(line', ACCOUNTS, i) =>
                /\ result' = [cmd |-> "msg", reply |-> <<>>, exc |-> ""]
                /\ fired' = <<[cb |-> "SEND_MESSAGE", aid |-> ACCOUNTS[i].aid,
                               params |-> <<line'[4],
                                            Join(Slice(line', 4), " ")>>]>>
                /\ IF line'[4] \in BuddyNames(ACCOUNTS[i])
                   THEN UNCHANGED <<ACCOUNTS, accounts_file>>
                   ELSE /\ ACCOUNTS' =
                            [ACCOUNTS EXCEPT ![i].buddies =
                                Append(@, Buddy(line'[4], "", "Available"))]
                        /\ Persisted(ACCOUNTS', accounts_file')]_vars

\* C18 witness: "account 0 send bob hi there" sent twice and then sent to
\* eve: the message went out as "hi there", account 0 holds bob once and eve,
\* and the file, empty after a failed write, was written again
C18_Witness ==
    /\ line = <<"account", "0", "send", "eve", "hi", "there">>
    /\ fired = <<[cb |-> "SEND_MESSAGE", aid |-> 0,
                  params |-> <<"eve", "hi there">>]>>
    /\ Len(ACCOUNTS) = 2
    /\ ACCOUNTS[1].buddies =
            <<Buddy("bob", "", "Available"), Buddy("eve", "", "Available")>>
    /\ accounts_file # {}

\* the callback table without the tag
Without(callbacks, tag) == [c \in DOMAIN callbacks \ {tag} |-> callbacks[c]]

\* the account ids a callback is called with: those of the registry and one
\* that is not in it
CalledFor == AccountIds(ACCOUNTS) \cup {MaxAccounts}

\* C19: calling a tag that has no handler returns the empty text and leaves
\* the state as it is, for every tag and every account id, and a command
\* whose callbacks are all of such tags enqueues nothing, raises nothing and
\* leaves the session tables alone.  unregister_callback(tag) of a registered tag takes
\* just this tag out of the table, after which a call of the tag is that
\* no-op; of a tag that is not registered it changes nothing; and a tag that
\* is registered and unregistered again leaves the table as if it had never
\* been registered.
C19_UnregisteredTagIsNoOp ==
    /\ [](\A tag \in Callback \ DOMAIN CALLBACKS :
            /\ \A a \in CalledFor :
                    Call(State, a, tag, ParamsOf(tag)) = Return(State, <<>>)
            /\ unregister_callback(State, tag) = State
            /\ unregister_callback(
                    register_callback(State, tag, "enqueue"), tag) = State)
    /\ [](\A tag \in DOMAIN CALLBACKS :
            /\ unregister_callback(State, tag) =
                    [State EXCEPT !.CALLBACKS = Without(CALLBACKS, tag)]
            /\ \A a \in CalledFor :
                    Call(unregister_callback(State, tag), a, tag, ParamsOf(tag))
                        = Return(unregister_callback(State, tag), <<>>))
    /\ [][/\ CALLBACKS' = CALLBACKS
          /\ fired' # <<>>
          /\ \A k \in 1..Len(fired') : fired'[k].cb \notin DOMAIN CALLBACKS
          => /\ enqueued' = <<>>
             /\ result'.exc = ""
             /\ UNCHANGED <<CONNECTIONS, THREADS>>]_vars

\* C19 witness: SEND_MESSAGE was unregistered and "account 0 send bob hi"
\* came for account 0, which has a session: the dispatcher called the tag,
\* nothing was enqueued, and the reply is empty
C19_Witness ==
    /\ "SEND_MESSAGE" \notin DOMAIN CALLBACKS
    /\ "CHAT_LIST" \in DOMAIN CALLBACKS
    /\ line = <<"account", "0", "send", "bob", "hi">>
    /\ fired = <<[cb |-> "SEND_MESSAGE", aid |-> 0, params |-> <<"bob", "hi">>]>>
    /\ 0 \in DOMAIN CONNECTIONS
    /\ enqueued = <<>>
    /\ result = [cmd |-> "msg", reply |-> <<>>, exc |-> ""]

\* the callback of a sub-verb of "chat" and the tokens the sub-verb needs
\* after itself
ChatVerbs ==
    [list |-> [cb |-> "CHAT_LIST", needs |-> 0],
     join |-> [cb |-> "CHAT_JOIN", needs |-> 1],
     part |-> [cb |-> "CHAT_PART", needs |-> 1],
     users |-> [cb |-> "CHAT_USERS", needs |-> 1],
     send |-> [cb |-> "CHAT_SEND", needs |-> 2],
     invite |-> [cb |-> "CHAT_INVITE", needs |-> 2]]

\* the parameters the callback of a sub-verb gets from the tokens after
\* "chat": the chat; for invite the chat and the user; for send the chat and
\* the message
ChatParams(params) ==
    CASE params[1] = "list" -> <<>>
      [] params[1] = "invite" -> <<params[2], params[3]>>
      [] params[1] = "send" -> <<params[2], Join(Slice(params, 2), " ")>>
      [] OTHER -> <<params[2]>>

\* the line is "account <id> chat ..." for the account at index i
ChatOver(parts, accounts, i) ==
    /\ Len(parts) >= 3 /\ parts[1] = "account" /\ parts[3] = "chat"
    /\ IsInt(parts[2])
    /\ accounts[i].aid = ParseInt(parts[2])

\* the tokens after "chat" name a sub-verb and hold the tokens it needs
ChatComplete(params) ==
    /\ params # <<>>
    /\ params[1] \in DOMAIN ChatVerbs
    /\ Len(params) > ChatVerbs[params[1]].needs

\* C20: "account <id> chat <verb> ..." with the tokens the verb needs (none
\* for list, the chat for join, part and users, the chat and the user for
\* invite, the chat and a message for send) calls the callback of the verb
\* exactly once, with these tokens, and no other callback; with a token
\* missing, with no verb or with an unknown verb it calls no callback.  The
\* reply is empty in either case and nothing is raised; registry and
\* accounts file stay as they are.
C20_ChatVerbsCallTheirCallback ==
    [][\A i \in 1..Len(ACCOUNTS) :
        ChatOver(line', ACCOUNTS, i) =>
            /\ result' = [cmd |-> "msg", reply |-> <<>>, exc |-> ""]
            /\ UNCHANGED <<ACCOUNTS, accounts_file, CALLBACKS>>
            /\ IF ChatComplete(Slice(line', 3))
               THEN fired' = <<[cb |-> ChatVerbs[line'[4]].cb,
                                aid |-> ACCOUNTS[i].aid,
                                params |-> ChatParams(Slice(line', 3))]>>
               ELSE fired' = <<>>]_vars

\* C20 witness: "account 0 chat invite room bob" for the xmpp account 0:
\* CHAT_INVITE was called once with the chat and the user and went to the
\* queue of the session
C20_Witness ==
    /\ line = <<"account", "0", "chat", "invite", "room", "bob">>
    /\ fired = <<[cb |-> "CHAT_INVITE", aid |-> 0, params |-> <<"room", "bob">>]>>
    /\ Len(enqueued) = 1
    /\ enqueued[1].cmd = "CHAT_INVITE"
    /\ result = [cmd |-> "msg", reply |-> <<>>, exc |-> ""]

\* the texts of the events of the given kinds, in the order of arrival
RECURSIVE TextsOf(_, _)
TextsOf(events, kinds) ==
    IF events = <<>> THEN <<>>
    ELSE IF Head(events).kind \in kinds
    THEN <<Head(events).text>> \o TextsOf(Tail(events), kinds)
    ELSE TextsOf(Tail(events), kinds)

\* no event handler of the session is at work
Quiet(a) ==
    worker[a].pc \notin {"msg_acquire", "msg_messages", "msg_history",
                         "msg_release", "pres_acquire", "pres_messages",
                         "pres_release"}

\* the server thread has handled a line
Answered == line' # line \/ result' # result

\* C21 as stated: every event of the kinds message, invite and presence has
\* been appended to the list of new messages and to the history when its
\* handler is through.
C21_EveryEventInBothLists ==
    \A a \in DOMAIN worker :
        Quiet(a) =>
            /\ trace[a].arrived =
                TextsOf(trace[a].events,
                        {"message", "groupchat", "presence", "invite"})
            /\ CONNECTIONS[a].history =
                TextsOf(trace[a].events,
                        {"message", "groupchat", "presence", "invite"})

\* C21, amended: a message and a groupchat message are appended to the list
\* of new messages and to the history, a presence in a chat to the list of
\* new messages only, each with the Lock of the session held by the worker;
\* an invite goes to the cache of pending invites, with the Lock not taken,
\* and to neither list.  "account <id> collect" replies the history: the
\* messages and groupchat messages, no presence and no invite.
C21_MessagesInBothListsPresenceInNew ==
    /\ [](\A a \in DOMAIN worker :
            /\ worker[a].pc \in {"msg_messages", "msg_history", "msg_release",
                                 "pres_messages", "pres_release"}
                    => lock[a] = "worker"
            /\ Quiet(a) =>
                /\ trace[a].arrived =
                    TextsOf(trace[a].events,
                            {"message", "groupchat", "presence"})
                /\ CONNECTIONS[a].history =
                    TextsOf(trace[a].events, {"message", "groupchat"}))
    /\ [][\A a \in DOMAIN worker :
            /\ \/ CONNECTIONS'[a].messages # CONNECTIONS[a].messages
               \/ CONNECTIONS'[a].history # CONNECTIONS[a].history
               => lock[a] # "free" /\ lock'[a] = lock[a]
            /\ /\ Len(trace'[a].events) > Len(trace[a].events)
               /\ trace'[a].events[Len(trace'[a].events)].kind = "invite"
               => /\ \E i \in 1..Len(CONNECTIONS'[a].muc_invites) :
                        CONNECTIONS'[a].muc_invites[i] =
                            trace'[a].events[Len(trace'[a].events)].text
                  /\ CONNECTIONS'[a].messages = CONNECTIONS[a].messages
                  /\ CONNECTIONS'[a].history = CONNECTIONS[a].history
                  /\ lock' = lock]_vars
    /\ [][Answered /\ line' \in CollectLines =>
            result' = [cmd |-> "msg", reply |-> CONNECTIONS[0].history,
                       exc |-> ""]]_vars

\* C21 witness: a message and a presence have arrived and their handlers are
\* through: both are among the messages that came in, the history holds the
\* message only, and "account 0 collect" has replied it
C21_Witness ==
    /\ Len(trace[0].events) = 2
    /\ trace[0].events[1].kind = "message"
    /\ trace[0].events[2].kind = "presence"
    /\ Quiet(0)
    /\ Len(trace[0].arrived) = 2
    /\ CONNECTIONS[0].history = <<trace[0].events[1].text>>
    /\ line = <<"account", "0", "collect">>
    /\ result.reply = CONNECTIONS[0].history

\* s is the beginning of t
StartOf(s, t) == Len(s) <= Len(t) /\ SubSeq(t, 1, Len(s)) = s

\* C22: no step takes an entry out of the history of a session or moves one:
\* the history before a step is the beginning of the history after it,
\* whether the step drains the new messages, collects, disconnects or
\* connects again.  "account <id> collect", with or without a time, calls
\* COLLECT_MESSAGES once, replies the whole history in the order of arrival
\* and leaves the history and the list of new messages as they are.
C22_HistoryIsAppendOnly ==
    /\ [][\A a \in DOMAIN CONNECTIONS :
            /\ a \in DOMAIN CONNECTIONS'
            /\ StartOf(CONNECTIONS[a].history, CONNECTIONS'[a].history)]_vars
    /\ [](\A a \in DOMAIN worker :
            Quiet(a) => CONNECTIONS[a].history =
                            TextsOf(trace[a].events, {"message", "groupchat"}))
    /\ [][Answered /\ line' \in CollectLines =>
            /\ result'.reply = CONNECTIONS[0].history
            /\ result'.exc = ""
            /\ fired' = <<[cb |-> "COLLECT_MESSAGES", aid |-> 0,
                           params |-> <<>>]>>
            /\ UNCHANGED CONNECTIONS]_vars

\* C22 witness: two messages came in, the new messages were drained, the
\* session was disconnected and is online again, and "account 0 collect 99"
\* has replied both messages while none is left to drain
C22_Witness ==
    /\ line = <<"account", "0", "collect", "99">>
    /\ Len(result.reply) = 2
    /\ result.reply = CONNECTIONS[0].history
    /\ CONNECTIONS[0].messages = <<>>
    /\ Len(trace[0].delivered) = 2
    /\ Len(trace[0].attempts) = 2
    /\ link[0] = "up"

\* the account of the session is offline
Offline(a) == ACCOUNTS[AccountIndex(ACCOUNTS, a)].status = "offline"

\* C23: while the account of a session is offline its worker is in none of
\* the steps of handle_queue() and update_buddies(): no step taken with the
\* account offline executes a command, takes a command off the queue or
\* builds or assigns a snapshot of the roster.
C23_OfflineSkipsQueueAndRoster ==
    /\ [](\A a \in DOMAIN worker :
            Offline(a) => worker[a].pc \in {"loop", "process", "status", "exited"})
    /\ [][\A a \in DOMAIN worker :
            Offline(a) =>
                /\ trace'[a].executed = trace[a].executed
                /\ StartOf(CONNECTIONS[a].queue, CONNECTIONS'[a].queue)
                /\ worker'[a].queue = worker[a].queue
                /\ worker'[a].buddies = worker[a].buddies
                /\ CONNECTIONS'[a].buddies = CONNECTIONS[a].buddies]_vars

\* C23 witness: the session was online, executed a command and built a
\* snapshot of a roster; it is offline now, two commands wait in its queue,
\* and its worker has been through the status check and is at the top of the
\* loop again
C23_Witness ==
    /\ Offline(0)
    /\ link[0] = "down"
    /\ Len(trace[0].executed) = 1
    /\ Len(CONNECTIONS[0].queue) = 2
    /\ client_roster[0] # <<>>
    /\ worker[0].buddies # <<>>
    /\ worker[0].pc = "loop"

\* the status of the account of a session
StatusOf(accounts, a) == accounts[AccountIndex(accounts, a)].status

\* C24: the status of the account of a session is "offline" or "online".  It
\* is "offline" when the session starts; it turns "online" only in the step
\* in which the session with the backend is established, and "offline" only
\* in the step of a disconnect; no line the server thread handles and no
\* command the worker executes for it changes it.
C24_StatusIsOfflineOrOnline ==
    /\ \A a \in DOMAIN worker : StatusOf(ACCOUNTS, a) = "offline"
    /\ [](\A a \in DOMAIN worker :
            StatusOf(ACCOUNTS, a) \in {"offline", "online"})
    /\ [][\A a \in DOMAIN worker :
            /\ StatusOf(ACCOUNTS', a) # StatusOf(ACCOUNTS, a) =>
                /\ worker[a].pc = "process"
                /\ IF StatusOf(ACCOUNTS', a) = "online"
                   THEN link[a] = "connecting" /\ link'[a] = "up"
                   ELSE link[a] = "up" /\ link'[a] = "down"
            /\ Answered \/ trace'[a].executed # trace[a].executed =>
                StatusOf(ACCOUNTS', a) = StatusOf(ACCOUNTS, a)]_vars

\* C24 witness: the session went online, offline and online again; the
\* worker has executed "SET_STATUS offline" and the server thread has
\* handled "account 0 status set offline", and the account is online
C24_Witness ==
    /\ StatusOf(ACCOUNTS, 0) = "online"
    /\ Len(trace[0].attempts) = 2
    /\ link[0] = "up"
    /\ trace[0].executed = <<[cmd |-> "SET_STATUS", params |-> <<"offline">>]>>
    /\ CONNECTIONS[0]._status = "offline"
    /\ line = <<"account", "0", "status", "set", "offline">>

\* the session of a has left one of the tables
Released(a) == a \notin DOMAIN CONNECTIONS \/ a \notin DOMAIN THREADS

\* the worker of a session that is released from the tables, or is about to
\* be, has exited: the deleting call waited for it
ReleasedAfterExit ==
    \A a \in DOMAIN worker :
        \/ Released(a)
        \/ control.pc \in {"del_connection", "del_thread"} /\ control.aid = a
        => /\ worker[a].pc = "exited"
           /\ a \in DOMAIN THREADS => ~THREADS[a]

\* the connection of a session that is released from the tables has been
\* told to disconnect
ReleasedAfterDisconnect ==
    \A a \in DOMAIN worker : Released(a) => link[a] = "down"

\* C25: "account <id> delete" of an account with a session marks the worker
\* to stop, tells the connection to the backend to disconnect and waits for
\* the worker to exit; the entries of the session leave the tables only
\* after the worker has exited, so that no worker runs for a session that is
\* not in the tables.
C25_DeleteStopsDisconnectsAndJoins ==
    ReleasedAfterExit /\ ReleasedAfterDisconnect

\* C25 witness: "account 0 delete" has returned for the account of a session
\* that was online: the worker has exited, the session has left the tables,
\* and the connection to the backend is up as before
C25_Witness ==
    /\ line = <<"account", "0", "delete">>
    /\ result.reply = Format_INFO("account 0 deleted.")
    /\ 0 \notin DOMAIN CONNECTIONS \cup DOMAIN THREADS
    /\ worker[0].pc = "exited"
    /\ link[0] = "up"

\* main() is on its way out: "quit" was handed to handle_msg(), or Ctrl-C
\* took main() to its finally block
ShuttingDown == line = <<"quit">> \/ control.pc \in {"join", "terminated"}

\* C26: once the process shuts down ("quit" or Ctrl-C), the running Event of
\* every session worker is cleared, every worker leaves its loop in the end
\* and the process terminates, and it terminates only when every worker has
\* exited.
C26_ShutdownStopsEveryWorker ==
    /\ [](ShuttingDown => \A a \in DOMAIN THREADS : ~THREADS[a])
    /\ ShuttingDown ~> (Alive = {} /\ control = Terminated)
    /\ [](control = Terminated => Alive = {})

\* the part of C26 that is left when "quit" is kept out of it: after Ctrl-C
\* every worker exits and the process terminates
C26_InterruptStopsEveryWorker ==
    /\ control.pc \in {"join", "terminated"} ~> (Alive = {} /\ control = Terminated)
    /\ [](control = Terminated => Alive = {})

\* C26 witness: "quit" was handed to handle_msg() with an account without
\* session ahead of alice's, it has raised KeyError, and alice's worker runs
\* with its running Event set
C26_Witness ==
    /\ line = <<"quit">>
    /\ result.exc = "KeyError"
    /\ \E a \in DOMAIN THREADS : THREADS[a] /\ a \in Alive

\* the ids of the accounts of the registry whose type is xmpp
XmppAccounts == {ACCOUNTS[i].aid : i \in {j \in 1..Len(ACCOUNTS) : ACCOUNTS[j].type = "xmpp"}}

\* C27: after main() and after every "account add" and "account <id> delete",
\* an account has a session (an entry of CONNECTIONS and an entry of THREADS)
\* exactly when it is in the registry and its type is xmpp.
C27_SessionIffXmppAccount ==
    /\ DOMAIN CONNECTIONS = XmppAccounts
    /\ DOMAIN THREADS = XmppAccounts

\* C27 witness: account 0 was deleted and its session is gone, while the
\* registry holds an account of another type, without session, and an xmpp
\* account with its session
C27_Witness ==
    /\ line = <<"account", "0", "delete">>
    /\ result.exc = ""
    /\ 0 \notin DOMAIN THREADS \cup DOMAIN CONNECTIONS
    /\ \E i \in 1..Len(ACCOUNTS) : ACCOUNTS[i].type = "icq"
    /\ DOMAIN THREADS # {}

\* the step changes the field of the client of session a
Mutated(a, field) == CONNECTIONS'[a][field] # CONNECTIONS[a][field]

\* the Lock of session a is held before the step and the step keeps it
UnderLock(a) == lock[a] # "free" /\ lock'[a] = lock[a]

\* C28 as stated: every step that changes the queue, the new messages, the
\* history, the roster snapshot or the pending invites of a session is taken
\* while the Lock of that session is held.
C28_EveryMutationUnderLock ==
    [][\A a \in DOMAIN CONNECTIONS :
          (\E field \in {"queue", "messages", "history", "buddies",
                         "muc_invites"} : Mutated(a, field))
          => UnderLock(a)]_vars

\* C28: every step that changes the queue, the new messages or the history
\* of a session is taken while the Lock of that session is held; the roster
\* snapshot changes under the Lock or is flushed, without it, by the
\* disconnect handler; the pending invites change without the Lock, and in
\* the worker's thread only.
C28_QueueAndBuffersUnderLock ==
    [][\A a \in DOMAIN CONNECTIONS :
          /\ (\E field \in {"queue", "messages", "history"} : Mutated(a, field))
                => UnderLock(a)
          /\ Mutated(a, "buddies")
                => \/ UnderLock(a)
                   \/ /\ link[a] # "down" /\ link'[a] = "down"
                      /\ CONNECTIONS'[a].buddies = <<>>
          /\ Mutated(a, "muc_invites")
                => control' = control
                   /\ worker[a].pc \in {"process", "hq_run", "ub_build"}]_vars

\* C28 witness: the server thread has appended a command to the queue with
\* the Lock in its hands, after a message reached the history and an invite
\* the pending invites
C28_Witness ==
    /\ ControlAt(0, "enq_release")
    /\ lock[0] = "control"
    /\ CONNECTIONS[0].queue # <<>>
    /\ CONNECTIONS[0].history # <<>>
    /\ CONNECTIONS[0].muc_invites # <<>>

\* where a worker and the server thread wait in lock.acquire()
WorkerWaits == {"hq_acquire", "ub_acquire", "msg_acquire", "pres_acquire"}
ControlWaits == {"enq_acquire", "gm_acquire", "ubc_acquire"}

\* where a worker is outside every method of its client that takes the Lock
WorkerOutside == {"loop", "process", "status", "hq_run", "ub_build", "exited"}

\* C29: the server thread holds the Lock of one session at most, and of none
\* while it waits for a Lock or is back in the server; a worker holds no
\* Lock while it waits for its own or is outside the methods that take it.
\* Whoever holds a Lock is therefore never waiting: it goes on to its
\* release().
C29_OneLockAtATime ==
    /\ Cardinality({a \in DOMAIN lock : lock[a] = "control"}) <= 1
    /\ control.pc \in ControlWaits \cup {"idle"}
            => \A a \in DOMAIN lock : lock[a] # "control"
    /\ \A a \in DOMAIN lock : lock[a] = "control" => control.aid = a
    /\ \A a \in DOMAIN worker :
            worker[a].pc \in WorkerWaits \cup WorkerOutside
                => lock[a] # "worker"

\* C29 witness: the server thread holds the Lock of carol's session and
\* alice's worker holds its own, while carol's worker waits for the Lock
C29_Witness ==
    /\ DOMAIN lock = {0, 1}
    /\ lock[1] = "control"
    /\ lock[0] = "worker"
    /\ worker[1].pc \in WorkerWaits

\* the step is one of the server thread handling a line about buddies
BuddiesHandled ==
    /\ BuddiesAsked(line', TRUE) \/ BuddiesAsked(line', FALSE)
    /\ UNCHANGED <<CONNECTIONS, worker, link, client_roster>>

\* C30: "account 0 buddies" fires UPDATE_BUDDIES and nothing else, and with
\* a session for account 0 the buddies of the account are, after the step,
\* the roster snapshot of the session as it is: whatever the account held
\* before, buddies added by "send" included, is gone; the listing without
\* filter is the "buddy:" lines of the snapshot.
C30_BuddiesReplacesListBySnapshot ==
    [][BuddiesHandled /\ 0 \in DOMAIN CONNECTIONS =>
          /\ fired' = <<[cb |-> "UPDATE_BUDDIES", aid |-> 0, params |-> <<>>]>>
          /\ ACCOUNTS'[AccountIndex(ACCOUNTS', 0)].buddies = CONNECTIONS[0].buddies
          /\ BuddiesAsked(line', FALSE) =>
                result'.reply =
                    LinesOf(0, CONNECTIONS[0].buddies,
                            StatusesOf(CONNECTIONS[0].buddies))]_vars

\* C30 witness: a message was sent to eve, whom the roster does not name, and
\* "account 0 buddies" then lists bob, the one buddy of the snapshot
C30_Witness ==
    /\ line = <<"account", "0", "buddies">>
    /\ \E i \in 1..Len(trace[0].submitted) :
            trace[0].submitted[i].params[1] = "eve"
    /\ Len(CONNECTIONS[0].buddies) = 1
    /\ ACCOUNTS[AccountIndex(ACCOUNTS, 0)].buddies = CONNECTIONS[0].buddies
    /\ result.reply =
            LinesOf(0, CONNECTIONS[0].buddies, StatusesOf(CONNECTIONS[0].buddies))
    /\ result.reply # <<>>

\* the snapshot of a roster for a client: the entries but the rooms left, a
\* joined room as GROUP_CHAT and the others with the status of their
\* presence, then the pending invites
SnapshotOf(roster, client) ==
    LET Kept(entry) ==
            entry.jid \in client.joined \/ entry.jid \notin client.muc_cache
        kept == SelectSeq(roster, Kept)
    IN  [i \in 1..Len(kept) |->
            Buddy(kept[i].jid, kept[i].name,
                  IF kept[i].jid \in client.joined THEN "GROUP_CHAT"
                  ELSE BuddyStatus(kept[i].presence))]
        \o [i \in 1..Len(client.muc_invites) |->
                Buddy(client.muc_invites[i], client.muc_invites[i],
                      "GROUP_CHAT_INVITE")]

\* C31: the list update_buddies() has built, and the snapshot it assigns, is
\* the roster without the rooms that were joined and left, every joined room
\* with the status GROUP_CHAT and every other entry with the status of its
\* presence, followed by one GROUP_CHAT_INVITE buddy for every invite that is
\* pending after the pass over the roster.
C31_SnapshotOfRosterRoomsAndInvites ==
    \A a \in DOMAIN worker :
        /\ worker[a].pc \in {"ub_acquire", "ub_assign"} =>
                worker[a].buddies = SnapshotOf(client_roster[a], CONNECTIONS[a])
        /\ worker[a].pc = "ub_release" =>
                CONNECTIONS[a].buddies =
                    SnapshotOf(client_roster[a], CONNECTIONS[a])

\* C31 witness: the room was joined and left and an invite to it is pending;
\* the roster holds the room and bob, and the snapshot assigned holds bob
\* with his status and the invite
C31_Witness ==
    /\ At(0, "ub_release")
    /\ client_roster[0] = <<Room, Bob>>
    /\ CONNECTIONS[0].joined = {}
    /\ CONNECTIONS[0].muc_cache = {Room.jid}
    /\ CONNECTIONS[0].buddies =
            <<Buddy(Bob.jid, "Bob", "away"),
              Buddy(Room.jid, Room.jid, "GROUP_CHAT_INVITE")>>

\* the chats with a pending invite
Pending(client) == {client.muc_invites[i] : i \in 1..Len(client.muc_invites)}

\* update_buddies() is at the roster entry of the chat and makes a buddy of it
Emitting(a, chat) ==
    /\ worker[a].pc = "ub_build"
    /\ worker[a].todo # <<>>
    /\ Head(worker[a].todo).jid = chat
    /\ \E i \in 1..Len(worker'[a].buddies) :
            /\ worker'[a].buddies[i].name = chat
            /\ worker'[a].buddies[i].status # "GROUP_CHAT_INVITE"

\* handle_queue() is at a "chat part" of the chat
Parting(a, chat) ==
    /\ worker[a].pc = "hq_run"
    /\ worker[a].queue # <<>>
    /\ Head(worker[a].queue) = [cmd |-> "CHAT_PART", params |-> <<chat>>]

\* C32: the invite event leaves its chat among the pending invites; a chat
\* leaves the pending invites only in the step of update_buddies() that makes
\* a buddy of the chat's roster entry, or in the step that executes "chat
\* part" for it; and every snapshot update_buddies() assigns holds the
\* GROUP_CHAT_INVITE buddy of every invite pending then.
C32_InvitePendingUntilRosterOrPart ==
    /\ [][\A a \in DOMAIN worker :
            /\ \A chat \in Pending(CONNECTIONS[a]) \ Pending(CONNECTIONS'[a]) :
                    Emitting(a, chat) \/ Parting(a, chat)
            /\ trace'[a].events # trace[a].events
               /\ trace'[a].events[Len(trace'[a].events)].kind = "invite"
                    => trace'[a].events[Len(trace'[a].events)].text
                            \in Pending(CONNECTIONS'[a])]_vars
    /\ [](\A a \in DOMAIN worker :
            worker[a].pc = "ub_release" =>
                \A chat \in Pending(CONNECTIONS[a]) :
                    \E i \in 1..Len(CONNECTIONS[a].buddies) :
                        CONNECTIONS[a].buddies[i] =
                            Buddy(chat, chat, "GROUP_CHAT_INVITE"))

\* C32 witness: the session went offline and has connected again; the invite
\* to the room is pending and in the snapshot, and "chat part" for the room
\* is the command handle_queue() runs next
C32_Witness ==
    /\ Parting(0, "room@muc.example.org")
    /\ Pending(CONNECTIONS[0]) = {"room@muc.example.org"}
    /\ Len(trace[0].attempts) = 2
    /\ CONNECTIONS[0].buddies =
            <<Buddy("room@muc.example.org", "room@muc.example.org",
                    "GROUP_CHAT_INVITE")>>

\* no two buddies of the list have the same name
UniqueNames(buddies) ==
    \A i, j \in 1..Len(buddies) : buddies[i].name = buddies[j].name => i = j

\* C39: no list update_buddies() has built, and no snapshot of a session,
\* holds a name twice: a chat is a buddy of the roster or a
\* GROUP_CHAT_INVITE buddy, never both.
C39_NoNameTwiceInSnapshot ==
    \A a \in DOMAIN worker :
        /\ UniqueNames(CONNECTIONS[a].buddies)
        /\ worker[a].pc \in {"ub_acquire", "ub_assign", "ub_release"} =>
                UniqueNames(worker[a].buddies)

\* C39 witness: an invite to the room arrived and no "chat part" was
\* executed; the roster names the room, and the snapshot assigned holds the
\* room once, as the buddy of the roster, with no invite pending
C39_Witness ==
    /\ At(0, "ub_release")
    /\ \E i \in 1..Len(trace[0].events) : trace[0].events[i].kind = "invite"
    /\ trace[0].executed = <<>>
    /\ client_roster[0] = <<Room, Bob>>
    /\ CONNECTIONS[0].muc_invites = <<>>
    /\ CONNECTIONS[0].buddies =
            <<Buddy(Room.jid, "", "available"), Buddy(Bob.jid, "Bob", "away")>>

\* C33: every iteration of handle() starts with handle_incoming(), whether
\* the client sends or not; every message that reached the list of new
\* messages of a session is sent to the client in the end; and a line of the
\* client is dispatched only after handle_incoming() of that iteration has
\* sent all it drained.
C33_RelayedEveryIteration ==
    /\ \A a \in 0..(MaxAccounts - 1) : \A k \in 1..MaxMessages :
            (a \in DOMAIN worker /\ Len(trace[a].arrived) >= k)
                ~> (a \in DOMAIN worker /\ Len(trace[a].delivered) >= k)
    /\ [][control.pc = "idle" => control'.pc \in {"idle", "gm_acquire"}]_vars
    /\ [][line' # line \/ result' # result => control.pc = "select"]_vars
    /\ [](control.pc = "select" =>
            \A a \in DOMAIN worker :
                trace[a].delivered \o CONNECTIONS[a].messages = trace[a].arrived)

\* C33 witness: a line of the client was dispatched in an earlier iteration;
\* in this one handle_incoming() has sent the third message that arrived,
\* and select() is next
C33_Witness ==
    /\ control.pc = "select"
    /\ line = <<"help">>
    /\ Len(trace[0].arrived) = 3
    /\ trace[0].delivered = trace[0].arrived

\* the records store_accounts() writes for the registry
Records(accounts) == {AccountRecord(accounts[i]) : i \in 1..Len(accounts)}

\* "account add" or "account <id> delete" changed the registry and reported
\* success
RegistryChanged ==
    /\ Len(ACCOUNTS') # Len(ACCOUNTS)
    /\ result'.exc = ""
    /\ result'.reply \in
            {Format_INFO("new account added.")}
            \cup {Format_INFO("account " \o ToString(i) \o " deleted.") :
                    i \in 0..(MaxAccounts - 1)}

\* C34 as stated: after every "account add" and "account <id> delete" that
\* reports success, the persisted records equal the registry.
C34_PersistedEqualsRegistry ==
    [][RegistryChanged => accounts_file' = Records(ACCOUNTS')]_vars

\* C34: after every "account add" and "account <id> delete" that reports
\* success, the persisted records equal the registry, or the write failed
\* and the file is the one of before or an empty one; the one callback of
\* the command, ADD_ACCOUNT or DEL_ACCOUNT, was called for the account of
\* the command.
C34_PersistedEqualsRegistryUnlessWriteFailed ==
    [][RegistryChanged =>
        /\ accounts_file' \in {Records(ACCOUNTS'), accounts_file, {}}
        /\ Len(fired') = 1
        /\ fired'[1].cb \in {"ADD_ACCOUNT", "DEL_ACCOUNT"}]_vars

\* two accounts added and reported, both in the file
C34_Witness ==
    /\ Len(ACCOUNTS) = 2
    /\ result.exc = ""
    /\ result.reply = Format_INFO("new account added.")
    /\ accounts_file = Records(ACCOUNTS)
    /\ Len(fired) = 1

\* C35 as stated: a failure of store_accounts() during "account add",
\* "account <id> delete" or "account <id> send" does not escape the
\* dispatcher: a command that changed the registry ends without an
\* exception.
C35_StoreFailureStaysInside ==
    [][ACCOUNTS' # ACCOUNTS => result'.exc = ""]_vars

\* the account with the refused password is in the registry, the command
\* ended with ValueError, no callback was called and the file is the old one
C35_Witness ==
    /\ StoreRaises(ACCOUNTS)
    /\ result.exc = "ValueError"
    /\ fired = <<>>
    /\ accounts_file # Records(ACCOUNTS)

\* the accounts of the registry whose "account add" has returned
Added ==
    {a \in AccountIds(ACCOUNTS) : ~(control.pc = "add_wait" /\ control.aid = a)}

\* C36: when "account add" of an xmpp account returns, the worker of the new
\* session has made its client, called connect() and registered the client
\* in CONNECTIONS; a command for the account that is dispatched next is
\* enqueued for the session and is never dropped for want of a connection.
C36_AddReturnsAfterClientRegistered ==
    /\ [](\A a \in Added :
            /\ a \in DOMAIN CONNECTIONS
            /\ a \in DOMAIN THREADS
            /\ a \in DOMAIN worker
            /\ a \in DOMAIN trace
            /\ Len(trace[a].attempts) >= 1)
    /\ [][\A a \in Added :
            (line' \in StartLines /\ line' # line /\ ParseInt(line'[2]) = a)
                => (Len(enqueued') = 1 /\ enqueued'[1].aid = a)]_vars

\* the add of the second account has returned and "status set" for it is on
\* its way to the session
C36_Witness ==
    /\ control = Idle
    /\ Len(ACCOUNTS) = 2
    /\ line = <<"account", "1", "status", "set", "away">>
    /\ Len(enqueued) = 1
    /\ enqueued[1].aid = 1

\* the commands of a session that wait: the copy handle_queue() works on,
\* the queue of the client unless it is that copy still, and the command
\* enqueue() is about to append
Queued(a) ==
    worker[a].queue
    \o (IF worker[a].pc = "hq_flush" THEN <<>> ELSE CONNECTIONS[a].queue)
    \o (IF control.pc \in {"enq_acquire", "enq_append"} /\ control.aid = a
        THEN control.local ELSE <<>>)

\* C37: a command enqueued while the session is offline is neither executed
\* nor dropped: it waits through the offline iterations and the reconnects,
\* and the commands are executed in the order they were enqueued in, only
\* while the account is not offline.
C37_OfflineCommandsWaitInOrder ==
    /\ [](\A a \in DOMAIN worker :
            trace[a].executed \o Queued(a) = trace[a].submitted)
    /\ [][\A a \in DOMAIN worker :
            /\ trace'[a].executed # trace[a].executed
                    => AccountStatus(a) # "offline"
            /\ (AccountStatus(a) = "offline" /\ worker[a].pc = "status")
                    => /\ worker'[a].pc \in {"status", "loop"}
                       /\ worker'[a].queue = <<>>]_vars

\* the session was online, executed a command, went offline, has connected
\* again and is offline still, with two commands waiting
C37_Witness ==
    /\ AccountStatus(0) = "offline"
    /\ Len(trace[0].attempts) = 2
    /\ Len(trace[0].executed) = 1
    /\ Len(CONNECTIONS[0].queue) = 2

\* the status of the last "status set" among the executed commands, "" if
\* there is none
LastStatus(executed) ==
    LET IsSetStatus(command) == command.cmd = "SET_STATUS"
        Set == SelectSeq(executed, IsSetStatus)
    IN  IF Set = <<>> THEN "" ELSE Set[Len(Set)].params[1]

\* C40: a status that "status set" has set and the worker has executed
\* survives a disconnect: at every later session start the session sends the
\* initial presence and then the presence of the status set last, before it
\* executes a command of the queue in that online period.
C40_StatusSetAgainAtSessionStart ==
    /\ [](\A a \in DOMAIN worker :
            CONNECTIONS[a]._status = LastStatus(trace[a].executed))
    /\ [][\A a \in DOMAIN worker :
            /\ (link[a] # "up" /\ link'[a] = "up")
                    => /\ trace'[a].executed = trace[a].executed
                       /\ trace'[a].presence =
                            IF LastStatus(trace[a].executed) = "" THEN <<"">>
                            ELSE <<"", LastStatus(trace[a].executed)>>
            /\ trace'[a].executed # trace[a].executed
                    => /\ link[a] = "up"
                       /\ trace[a].presence # <<>>
                       /\ trace[a].presence[1] = ""
                       /\ LastStatus(trace[a].executed) # ""
                            => /\ Len(trace[a].presence) >= 2
                               /\ LastStatus(trace[a].executed) =
                                    trace[a].presence[Len(trace[a].presence)]]_vars

\* "status set away" and "status set dnd" were executed, the session went
\* offline and has connected again: the initial presence and dnd are sent,
\* and a third command waits in the queue
C40_Witness ==
    /\ link[0] = "up"
    /\ Len(trace[0].attempts) = 2
    /\ Len(trace[0].executed) = 2
    /\ LastStatus(trace[0].executed) = "dnd"
    /\ trace[0].presence = <<"", "dnd">>
    /\ Len(CONNECTIONS[0].queue) = 1

\* the running Event of the worker is cleared
Stopped(a) == a \in DOMAIN THREADS /\ ~THREADS[a]

\* C38: once the running Event of a worker is cleared the worker starts no
\* new iteration of its loop: the iteration in progress is the last to
\* execute commands, and the commands that are in the queue when the worker
\* has left the loop are never executed, and none is enqueued later.
C38_NoIterationAfterStop ==
    [][\A a \in DOMAIN worker :
        /\ Stopped(a) => (a \in DOMAIN THREADS' => ~THREADS'[a])
        /\ (Stopped(a) /\ worker[a].pc = "loop")
                => worker'[a].pc \in {"loop", "exited"}
        /\ worker[a].pc = "exited"
                => /\ worker'[a] = worker[a]
                   /\ trace'[a].executed = trace[a].executed
                   /\ a \in DOMAIN CONNECTIONS'
                        => CONNECTIONS'[a].queue = CONNECTIONS[a].queue]_vars

\* the worker has left its loop after "quit" and the process is over: one
\* command was executed, two are in the queue still
C38_Witness ==
    /\ 0 \in DOMAIN CONNECTIONS
    /\ Stopped(0)
    /\ worker[0].pc = "exited"
    /\ Len(trace[0].executed) = 1
    /\ Len(CONNECTIONS[0].queue) = 2
    /\ control = Terminated

=============================================================================
